---- MODULE Spec2Model ----
(***************************************************************************)
(* Proof-of-work blockchain node: the ledger (Blockchain) with its        *)
(* longest-chain fork choice and the miner's control state machine.       *)
(*                                                                         *)
(* Digests.  A 256-bit digest is modelled as a pair <<hi, lo>> ordered    *)
(* lexicographically (big-endian): hi stands for the leading bits that a  *)
(* difficulty target constrains, lo for the remaining bits.  The header   *)
(* hash is an injective encoding of the header fields, so two headers     *)
(* have the same hash only when they are equal, and a header's hash is    *)
(* never the hash of one of its ancestors.  The header fields nonce,      *)
(* timestamp and merkle_root, which only serve as entropy of the hash,    *)
(* are folded into the field nonce.                                        *)
(***************************************************************************)
EXTENDS Integers, Sequences, FiniteSets, TLC

\* ------------------------------------------------------------------ bounds
\* number of distinct header entropy values (nonce/timestamp) per parent
NonceCount == 3
\* number of entropy values generate_random_block draws from
TestNonceCount == 2
\* generate_random_block chains reach this height above genesis
TestDepth == 3
\* the miner and its peers build blocks up to this height above genesis
MaxHeight == 2
\* the ledger of the ledger specification holds at most this many blocks
\* besides genesis
MaxBlocks == 3
\* capacity the model gives the (unbounded) miner control channel
MaxChan == 2
\* largest lambda a Start signal carries
MaxLambda == 1
\* a peer's chain reaches this height above genesis
PeerDepth == 3
\* a Blocks message lists at most this many blocks
MaxBatch == 2
\* a NewBlockHashes or GetBlocks message lists at most this many hashes
MaxHashes == 2
\* the orphan buffer holds at most this many blocks
MaxOrphans == 2
LockDepth == 2
MaxPool == 2
MaxMined == 2
SyncHeight == 4
MaxLeaves == 3
MaxApplied == 2
ItemCount == 2
MaxValue == 2
MaxTxNonce == 2

Nonces == 0 .. (NonceCount - 1)
TestNonces == 0 .. ((IF TestNonceCount < NonceCount THEN TestNonceCount ELSE NonceCount) - 1)
Lambdas == 0 .. MaxLambda

Nil == "nil"

\* ----------------------------------------------------------------- digests
\* every header has one of two difficulty targets, NonceCount entropy values
Fanout == 2 * NonceCount

RECURSIVE MaxCodeAt(_)
MaxCodeAt(d) == IF d = 0 THEN Fanout ELSE Fanout * MaxCodeAt(d - 1) + Fanout

\* the low part of a digest whose low bits are all ones
LowOnes == MaxCodeAt(TestDepth + MaxHeight + 1)

\* H256::from([0x00; 32])
ZeroDigest == <<0, 0>>

\* H256::from([0xff; 32])
AllOnes == <<1, LowOnes>>

\* hex 00001fff...ff : the leading bits zero, every other bit one
GenesisDifficulty == <<0, LowOnes>>

\* a <= b on H256, a big-endian unsigned integer
DigestLe(a, b) == a[1] < b[1] \/ (a[1] = b[1] /\ a[2] <= b[2])

DifficultyIndex(d) == IF d = GenesisDifficulty THEN 0 ELSE 1

\* Header::hash: SHA256 of the serialized header.  The leading bits are
\* zero for some entropy values and not for others; the rest identifies
\* the header (parent, difficulty, entropy).
Hash(header) ==
    << IF header.nonce % 3 = 1 THEN 1 ELSE 0,
       Fanout * header.parent[2]
         + NonceCount * DifficultyIndex(header.difficulty)
         + header.nonce + 1 >>

\* ------------------------------------------------------------------ blocks
Header(parent, nonce, difficulty) ==
    [parent |-> parent, nonce |-> nonce, difficulty |-> difficulty]

MkBlock(header) == [header |-> header, content |-> <<>>]

\* Block::hash
BlockHash(block) == Hash(block.header)

get_parent(block) == block.header.parent

get_difficulty(block) == block.header.difficulty

\* generate_random_block(parent): random nonce, difficulty all ones, no content
generate_random_block(parent, nonce) == MkBlock(Header(parent, nonce, AllOnes))

genesis_block == MkBlock(Header(ZeroDigest, 0, GenesisDifficulty))

genesis_hash == BlockHash(genesis_block)

\* ------------------------------------------------------------------ ledger
\* HashMap::insert
Put(f, k, v) == (k :> v) @@ f

\* Blockchain::new
new ==
    [blocks  |-> Put(<<>>, genesis_hash, genesis_block),
     heights |-> Put(<<>>, genesis_hash, 0),
     tip     |-> genesis_hash]

\* the body of insert with the height of the new block, the comparison that
\* moves the tip and the new tip left open
InsertWith(bc, block, block_height, moves, new_tip) ==
    LET block_hash == BlockHash(block)
        blocks1    == Put(bc.blocks, block_hash, block)
        heights1   == Put(bc.heights, block_hash, block_height)
    IN  [blocks  |-> blocks1,
         heights |-> heights1,
         tip     |-> IF moves THEN new_tip ELSE bc.tip]

\* insert moving the tip on block_height >= height(tip)
insert_ge(bc, block) ==
    IF get_parent(block) \in DOMAIN bc.heights
    THEN LET h == bc.heights[get_parent(block)] + 1
         IN  InsertWith(bc, block, h,
                        h >= Put(bc.heights, BlockHash(block), h)[bc.tip],
                        BlockHash(block))
    ELSE bc

\* insert comparing the parent's height with the height of the tip
insert_parent_height(bc, block) ==
    IF get_parent(block) \in DOMAIN bc.heights
    THEN LET h == bc.heights[get_parent(block)] + 1
         IN  InsertWith(bc, block, h,
                        h - 1 > Put(bc.heights, BlockHash(block), h)[bc.tip],
                        BlockHash(block))
    ELSE bc

\* insert storing a block of unknown parent as a child of height 1
insert_no_parent_check(bc, block) ==
    LET h == IF get_parent(block) \in DOMAIN bc.heights
             THEN bc.heights[get_parent(block)] + 1 ELSE 1
    IN  InsertWith(bc, block, h,
                   h > Put(bc.heights, BlockHash(block), h)[bc.tip],
                   BlockHash(block))

\* insert moving the tip to the parent of the inserted block
insert_tip_parent(bc, block) ==
    IF get_parent(block) \in DOMAIN bc.heights
    THEN LET h == bc.heights[get_parent(block)] + 1
         IN  InsertWith(bc, block, h,
                        h > Put(bc.heights, BlockHash(block), h)[bc.tip],
                        get_parent(block))
    ELSE bc

\* insert taking the height of the tip, not of the parent, as the base
insert_height_from_tip(bc, block) ==
    IF get_parent(block) \in DOMAIN bc.heights
    THEN LET h == bc.heights[bc.tip] + 1
         IN  InsertWith(bc, block, h,
                        h > Put(bc.heights, BlockHash(block), h)[bc.tip],
                        BlockHash(block))
    ELSE bc

\* insert refusing a block whose parent is not the tip
insert_on_tip_only(bc, block) ==
    IF get_parent(block) = bc.tip
    THEN InsertWith(bc, block, bc.heights[bc.tip] + 1, TRUE, BlockHash(block))
    ELSE bc

\* Blockchain::insert
insert(bc, block) ==
    LET block_hash  == BlockHash(block)
        parent_hash == get_parent(block)
    IN  IF parent_hash \in DOMAIN bc.heights
        THEN LET blocks1      == Put(bc.blocks, block_hash, block)
                 block_height == bc.heights[parent_hash] + 1
                 heights1     == Put(bc.heights, block_hash, block_height)
             IN  [blocks  |-> blocks1,
                  heights |-> heights1,
                  tip     |-> IF block_height > heights1[bc.tip]
                              THEN block_hash ELSE bc.tip]
        ELSE bc

\* Blockchain::tip
tip(bc) == bc.tip

RECURSIVE Reverse(_)
Reverse(s) == IF s = <<>> THEN <<>> ELSE Append(Reverse(Tail(s)), Head(s))

\* the while loop of all_blocks_in_longest_chain
RECURSIVE WalkBack(_, _, _)
WalkBack(bc, current_hash, chain) ==
    IF current_hash \in DOMAIN bc.blocks
    THEN LET chain1 == Append(chain, current_hash)
             next   == get_parent(bc.blocks[current_hash])
         IN  IF next = ZeroDigest THEN chain1 ELSE WalkBack(bc, next, chain1)
    ELSE chain

\* the walk without the final reverse
all_blocks_unreversed(bc) == WalkBack(bc, bc.tip, <<>>)

\* Blockchain::all_blocks_in_longest_chain
all_blocks_in_longest_chain(bc) == Reverse(WalkBack(bc, bc.tip, <<>>))

\* ------------------------------------------------------------------ inputs
\* blocks the tests build with generate_random_block on top of genesis
RECURSIVE TestLevel(_)
TestLevel(d) ==
    IF d = 0 THEN {genesis_block}
    ELSE {generate_random_block(BlockHash(p), n) : p \in TestLevel(d - 1), n \in TestNonces}

\* every block an insert call of the ledger specification may be given:
\* the descendants of genesis and blocks whose parent is the zero digest
TestBlocks ==
    UNION {TestLevel(d) : d \in 1 .. TestDepth}
      \cup {generate_random_block(ZeroDigest, n) : n \in TestNonces}

\* ------------------------------------------------------------------- miner
\* ControlSignal
Start(i) == <<"Start", i>>
Update == <<"Update">>
Exit == <<"Exit">>
Signals == {Start(i) : i \in Lambdas} \cup {Update, Exit}

\* OperatingState
Paused == <<"Paused">>
Run(i) == <<"Run", i>>
ShutDown == <<"ShutDown">>

\* miner::new: the miner starts in Paused
miner_new == Paused

\* the Paused arm treating Update as Start(0)
paused_update_starts(signal) ==
    IF signal = Exit THEN ShutDown
    ELSE IF signal[1] = "Start" THEN Run(signal[2])
    ELSE Run(0)

\* the Paused arm ignoring Exit
paused_ignores_exit(signal) ==
    IF signal[1] = "Start" THEN Run(signal[2]) ELSE Paused

\* miner_loop, Paused arm: the state after control_chan.recv() gave signal
paused_signal(signal) ==
    IF signal = Exit THEN ShutDown
    ELSE IF signal[1] = "Start" THEN Run(signal[2])
    ELSE Paused

\* the Run arm ignoring Exit
run_exit_ignored(state, signal) ==
    IF signal[1] = "Start" THEN [state |-> Run(signal[2]), panic |-> FALSE]
    ELSE [state |-> state, panic |-> signal = Update]

\* miner_loop, Run arm: the state after control_chan.try_recv() gave signal,
\* and whether the arm panicked (unimplemented!())
run_signal(state, signal) ==
    IF signal = Exit THEN [state |-> ShutDown, panic |-> FALSE]
    ELSE IF signal[1] = "Start" THEN [state |-> Run(signal[2]), panic |-> FALSE]
    ELSE [state |-> state, panic |-> TRUE]

\* the difficulty the miner puts in every candidate header
miner_difficulty == GenesisDifficulty

\* the candidate built on genesis whatever the tip is
candidate_on_genesis(parent, nonce) ==
    MkBlock(Header(genesis_hash, nonce, miner_difficulty))

\* miner_loop: the candidate block on parent_hash with a random nonce
candidate_block(parent, nonce) == MkBlock(Header(parent, nonce, miner_difficulty))

\* the proof-of-work check accepting every candidate
pow_always(b) == TRUE

\* miner_loop: the proof-of-work check  block.hash() <= difficulty
pow_ok(b) == DigestLe(BlockHash(b), miner_difficulty)

\* the entropy value of the blocks that reach the node from its peers; the
\* miner draws from two others, one whose hash meets the difficulty and one
\* whose hash exceeds it, so that a mined block and a received block never
\* have the same hash
NetNonce == NonceCount - 1
MinerNonces == (0 .. 1) \ {NetNonce}

\* blocks other threads of the node (network worker) insert while the miner
\* runs: a peer's chain of blocks of the genesis difficulty on top of genesis
RECURSIVE NetLevel(_)
NetLevel(d) ==
    IF d = 0 THEN {genesis_block}
    ELSE {candidate_block(BlockHash(p), NetNonce) : p \in NetLevel(d - 1)}

NetBlocks == UNION {NetLevel(d) : d \in 1 .. MaxHeight}

\* ---------------------------------------------------------- network worker
\* Message
NewBlockHashes(hashes) == <<"NewBlockHashes", hashes>>
GetBlocks(hashes) == <<"GetBlocks", hashes>>
Blocks(blocks) == <<"Blocks", blocks>>
Ping(nonce) == <<"Ping", nonce>>
Pong(nonce) == <<"Pong", nonce>>
NewTransactionHashes(hashes) == <<"NewTransactionHashes", hashes>>
NoMessage == <<"None">>

\* the message kinds worker_loop has a match arm for
Supported == {"Ping", "Pong", "NewBlockHashes", "GetBlocks", "Blocks"}

\* nonce.to_string()
to_string(nonce) == <<"str", nonce>>

\* what a handler sends: peer.write(msg) to the peer the message came from,
\* server.broadcast(msg) to every peer; CallOrphans marks the call of
\* process_orphans in the sequence of a handler's effects
Write(msg) == <<"write", msg>>
Broadcast(msg) == <<"broadcast", msg>>
CallOrphans == <<"process_orphans">>

\* the request listing every announced hash
missing_all(bc, hashes) == hashes

\* NewBlockHashes handler: the hashes that are not in the ledger
missing_hashes(bc, hashes) ==
    SelectSeq(hashes, LAMBDA hash : hash \notin DOMAIN bc.blocks)

\* NewBlockHashes handler: what it sends
on_new_block_hashes(bc, hashes) ==
    IF missing_hashes(bc, hashes) # <<>>
    THEN <<Write(GetBlocks(missing_hashes(bc, hashes)))>>
    ELSE <<>>

\* the reply listing the held blocks in reverse order
blocks_reversed(bc, hashes) ==
    LET known == SelectSeq(hashes, LAMBDA hash : hash \in DOMAIN bc.blocks)
    IN  [i \in 1 .. Len(known) |-> bc.blocks[known[Len(known) + 1 - i]]]

\* GetBlocks handler: the held blocks of the requested hashes
blocks_to_send(bc, hashes) ==
    LET known == SelectSeq(hashes, LAMBDA hash : hash \in DOMAIN bc.blocks)
    IN  [i \in 1 .. Len(known) |-> bc.blocks[known[i]]]

\* GetBlocks handler: what it sends
on_get_blocks(bc, hashes) ==
    IF blocks_to_send(bc, hashes) # <<>>
    THEN <<Write(Blocks(blocks_to_send(bc, hashes)))>>
    ELSE <<>>

\* the orphan dropped instead of buffered
push_orphan_drop(ob, parent, b) == ob

\* the buffer entry of parent replaced by the new orphan
push_orphan_replace(ob, parent, b) == Put(ob, parent, <<b>>)

\* orphan_buffer.entry(parent_hash).or_insert_with(Vec::new).push(block)
push_orphan(ob, parent, b) ==
    IF parent \in DOMAIN ob
    THEN Put(ob, parent, Append(ob[parent], b))
    ELSE Put(ob, parent, <<b>>)

\* orphan_buffer.remove(parent_hash)
remove_key(ob, parent) == [k \in DOMAIN ob \ {parent} |-> ob[k]]

\* the body of the for loop without the check that the block is new
blocks_step_relists(s, b) ==
    LET block_hash == BlockHash(b)
        parent == get_parent(b)
    IN  IF ~DigestLe(block_hash, get_difficulty(b)) THEN s
        ELSE IF parent \notin DOMAIN s.bc.blocks
        THEN [s EXCEPT !.ob = push_orphan(@, parent, b),
                       !.out = Append(@, Write(GetBlocks(<<parent>>)))]
        ELSE IF get_difficulty(b) # get_difficulty(s.bc.blocks[parent]) THEN s
        ELSE [s EXCEPT !.bc = insert(@, b),
                       !.new = Append(@, block_hash)]

\* Blocks handler, the body of  for block in blocks : s holds the ledger,
\* the orphan buffer, what was sent so far and new_block_hashes
blocks_step(s, b) ==
    LET block_hash == BlockHash(b)
        parent == get_parent(b)
    IN  IF ~DigestLe(block_hash, get_difficulty(b)) THEN s
        ELSE IF parent \notin DOMAIN s.bc.blocks
        THEN [s EXCEPT !.ob = push_orphan(@, parent, b),
                       !.out = Append(@, Write(GetBlocks(<<parent>>)))]
        ELSE IF get_difficulty(b) # get_difficulty(s.bc.blocks[parent]) THEN s
        ELSE IF block_hash \notin DOMAIN s.bc.blocks
        THEN [s EXCEPT !.bc = insert(@, b),
                       !.new = Append(@, block_hash)]
        ELSE s

\* Blocks handler:  for block in blocks { .. }
RECURSIVE blocks_loop(_, _)
blocks_loop(s, blocks) ==
    IF blocks = <<>> THEN s
    ELSE blocks_loop(blocks_step(s, Head(blocks)), Tail(blocks))

\* process_orphans:  for orphan in orphans { insert, push the hash }
RECURSIVE insert_orphans(_, _)
insert_orphans(s, orphans) ==
    IF orphans = <<>> THEN s
    ELSE insert_orphans([s EXCEPT !.bc = insert(@, Head(orphans)),
                                  !.new = Append(@, BlockHash(Head(orphans)))],
                        Tail(orphans))

\* process_orphans, one pass of the while loop: the for loop goes over a
\* clone of the buffer (snap) in the order HashMap::iter gives its keys
RECURSIVE orphan_scan(_, _, _)
orphan_scan(s, snap, order) ==
    IF order = <<>> THEN s
    ELSE LET parent == Head(order)
         IN  IF parent \in DOMAIN s.bc.blocks
             THEN orphan_scan([insert_orphans(s, snap[parent])
                                  EXCEPT !.ob = remove_key(@, parent)],
                              snap, Tail(order))
             ELSE orphan_scan(s, snap, Tail(order))

\* the orders in which HashMap::iter may give the keys of the buffer
KeyOrders(ob) ==
    {o \in [1 .. Cardinality(DOMAIN ob) -> DOMAIN ob] :
        \A i, j \in DOMAIN o : i # j => o[i] # o[j]}

\* process_orphans,  while processed_any { .. } : every outcome from ledger bc
\* and buffer ob.  casts lists the new_block_hashes of the passes, each
\* broadcast at the end of its pass when it is not empty.
RECURSIVE orphans_while(_, _)
orphans_while(bc, ob) ==
    UNION {
        LET s == orphan_scan([bc |-> bc, ob |-> ob, new |-> <<>>], ob, order)
        IN  IF s.new = <<>>
            THEN {[bc |-> bc, ob |-> ob, casts |-> <<>>]}
            ELSE {[r EXCEPT !.casts = <<s.new>> \o @] : r \in orphans_while(s.bc, s.ob)}
        : order \in KeyOrders(ob)}

\* orphan resolution making one pass over the buffer
process_orphans_once(bc, ob) ==
    {LET s == orphan_scan([bc |-> bc, ob |-> ob, new |-> <<>>], ob, order)
     IN  [bc |-> s.bc, ob |-> s.ob,
          casts |-> IF s.new = <<>> THEN <<>> ELSE <<s.new>>]
        : order \in KeyOrders(ob)}

\* process_orphans
process_orphans(bc, ob) == orphans_while(bc, ob)

\* only the first pass of process_orphans broadcasting
cast_first(casts) ==
    IF casts = <<>> THEN <<>> ELSE <<Broadcast(NewBlockHashes(casts[1]))>>

\* the broadcasts of process_orphans, in the order they are sent
CastEvents(casts) ==
    [i \in 1 .. Len(casts) |-> Broadcast(NewBlockHashes(casts[i]))]

\* Blocks handler: every outcome (ledger, orphan buffer, what was sent)
on_blocks(bc, ob, blocks) ==
    LET s == blocks_loop([bc |-> bc, ob |-> ob, out |-> <<>>, new |-> <<>>], blocks)
        sent == IF s.new # <<>>
                THEN Append(s.out, Broadcast(NewBlockHashes(s.new)))
                ELSE s.out
    IN  {[bc |-> r.bc, ob |-> r.ob,
          out |-> Append(sent, CallOrphans) \o CastEvents(r.casts),
          casts |-> r.casts] : r \in process_orphans(s.bc, s.ob)}

\* worker_loop: every outcome of handling msg
handle(bc, ob, msg) ==
    IF msg[1] = "Ping"
    THEN {[bc |-> bc, ob |-> ob, out |-> <<Write(Pong(to_string(msg[2])))>>, casts |-> <<>>]}
    ELSE IF msg[1] = "Pong"
    THEN {[bc |-> bc, ob |-> ob, out |-> <<>>, casts |-> <<>>]}
    ELSE IF msg[1] = "NewBlockHashes"
    THEN {[bc |-> bc, ob |-> ob, out |-> on_new_block_hashes(bc, msg[2]), casts |-> <<>>]}
    ELSE IF msg[1] = "GetBlocks"
    THEN {[bc |-> bc, ob |-> ob, out |-> on_get_blocks(bc, msg[2]), casts |-> <<>>]}
    ELSE on_blocks(bc, ob, msg[2])

\* the blocks a peer sends: its chain on top of genesis, two more blocks of
\* the genesis difficulty on genesis, one whose hash meets the difficulty and
\* one whose hash exceeds it, and blocks generate_random_block builds
\* (difficulty all ones) on genesis and on the first block of the chain
PeerChain == UNION {NetLevel(d) : d \in 1 .. PeerDepth}

PeerBlocks ==
    PeerChain
      \cup {candidate_block(genesis_hash, n) : n \in 0 .. 1}
      \cup {generate_random_block(BlockHash(p), 0) : p \in NetLevel(0) \cup NetLevel(1)}

\* the hashes a peer announces or requests
PeerHashes == {genesis_hash} \cup {BlockHash(b) : b \in PeerChain}

\* the sequences over S of at most n elements
SeqsUpTo(S, n) == UNION {[1 .. k -> S] : k \in 0 .. n}

\* the messages a peer sends to the node
Messages ==
    {NewBlockHashes(hashes) : hashes \in SeqsUpTo(PeerHashes, MaxHashes)}
      \cup {GetBlocks(hashes) : hashes \in SeqsUpTo(PeerHashes, MaxHashes)}
      \cup {Blocks(blocks) : blocks \in SeqsUpTo(PeerBlocks, MaxBatch)}

\* the number of blocks the orphan buffer holds
RECURSIVE BufferedCount(_)
BufferedCount(ob) ==
    IF DOMAIN ob = {} THEN 0
    ELSE LET k == CHOOSE k \in DOMAIN ob : TRUE
         IN  Len(ob[k]) + BufferedCount(remove_key(ob, k))

\* ------------------------------------------------- transactions and mempool
\* the Ed25519 key pairs in use
Keys == {"k1", "k2"}

\* key.public_key()
public_key(key) == <<"pk", key>>

\* Address::from_public_key_bytes
from_public_key_bytes(pk) == <<"addr", pk>>

\* the addresses: one per key pair, and one that no key pair owns
Addresses ==
    {from_public_key_bytes(public_key(k)) : k \in Keys \cup {"none"}}

Transaction(receiver, value, nonce) ==
    [receiver |-> receiver, value |-> value, nonce |-> nonce]

\* sign(t, key): the Ed25519 signature of the serialized transaction
sign(t, key) == <<"sig", t, public_key(key)>>

\* verify(t, public_key, signature)
verify(t, pk, signature) == signature = <<"sig", t, pk>>

SignedTransaction(t, signature, pk) ==
    [transaction |-> t, signature |-> signature, public_key |-> pk]

\* SignedTransaction::sender_address
sender_address(tx) == from_public_key_bytes(tx.public_key)

\* SignedTransaction::hash: SHA256 of the serialized signed transaction
tx_hash(tx) == <<"H256", tx.transaction, tx.signature, tx.public_key>>

\* Mempool::new
mempool_new(max_size) == [pool |-> <<>>, max_size |-> max_size]

\* admission without the signature check
add_unverified(mp, tx) ==
    IF Cardinality(DOMAIN mp.pool) >= mp.max_size
    THEN [mempool |-> mp, result |-> "Mempool is full"]
    ELSE IF tx_hash(tx) \in DOMAIN mp.pool
    THEN [mempool |-> mp, result |-> "Duplicate transaction"]
    ELSE [mempool |-> [mp EXCEPT !.pool = Put(@, tx_hash(tx), tx)],
          result  |-> "Ok"]

\* admission without the duplicate check
add_again(mp, tx) ==
    IF Cardinality(DOMAIN mp.pool) >= mp.max_size
    THEN [mempool |-> mp, result |-> "Mempool is full"]
    ELSE IF ~verify(tx.transaction, tx.public_key, tx.signature)
    THEN [mempool |-> mp, result |-> "Invalid Signature"]
    ELSE [mempool |-> [mp EXCEPT !.pool = Put(@, tx_hash(tx), tx)],
          result  |-> "Ok"]

\* Mempool::add_transaction: the pool after the call and the result
add_transaction(mp, tx) ==
    IF Cardinality(DOMAIN mp.pool) >= mp.max_size
    THEN [mempool |-> mp, result |-> "Mempool is full"]
    ELSE IF tx_hash(tx) \in DOMAIN mp.pool
    THEN [mempool |-> mp, result |-> "Duplicate transaction"]
    ELSE IF ~verify(tx.transaction, tx.public_key, tx.signature)
    THEN [mempool |-> mp, result |-> "Invalid Signature"]
    ELSE [mempool |-> [mp EXCEPT !.pool = Put(@, tx_hash(tx), tx)],
          result  |-> "Ok"]

\* the removal of the first listed hash only
remove_first(mp, tx_hashes) ==
    [mp EXCEPT !.pool = [h \in DOMAIN @ \ {tx_hashes[i] : i \in DOMAIN tx_hashes \cap {1}}
                            |-> @[h]]]

\* Mempool::remove_transactions
remove_transactions(mp, tx_hashes) ==
    [mp EXCEPT !.pool = [h \in DOMAIN @ \ {tx_hashes[i] : i \in DOMAIN tx_hashes}
                            |-> @[h]]]

\* a transfer of value to receiver signed by key
Signed(key, receiver, value, nonce) ==
    SignedTransaction(Transaction(receiver, value, nonce),
                      sign(Transaction(receiver, value, nonce), key),
                      public_key(key))

\* the transactions create_valid_transaction builds with the generator's key
GenTransactions ==
    {Signed("k1", from_public_key_bytes(public_key("k2")), 1, n) : n \in 1 .. MaxTxNonce}

\* the transaction lists of the blocks sent on finished_block_chan: the
\* first k transactions of the generator, in the order of their nonces
Contents ==
    {[i \in 1 .. k |-> Signed("k1", from_public_key_bytes(public_key("k2")), 1, i)]
        : k \in 0 .. MaxTxNonce}

\* -------------------------------------------------------------- account state
\* the balance of the account State::new creates
IcoBalance == 1000000000

\* State::new(seed): one account, of the key pair made from seed
state_new(key) ==
    [accounts |-> Put(<<>>, from_public_key_bytes(public_key(key)), <<0, IcoBalance>>)]

\* the check accepting any nonce above the stored one
is_valid_any_later_nonce(state, tx) ==
    IF sender_address(tx) \in DOMAIN state.accounts
    THEN /\ state.accounts[sender_address(tx)][1] + 1 <= tx.transaction.nonce
         /\ state.accounts[sender_address(tx)][2] >= tx.transaction.value
    ELSE FALSE

\* State::is_valid_transaction
is_valid_transaction(state, tx) ==
    IF sender_address(tx) \in DOMAIN state.accounts
    THEN /\ state.accounts[sender_address(tx)][1] + 1 = tx.transaction.nonce
         /\ state.accounts[sender_address(tx)][2] >= tx.transaction.value
    ELSE FALSE

\* the update of the sender account that leaves its nonce as it was
debit_keeps_nonce(accounts, sender, value) ==
    IF sender \in DOMAIN accounts
    THEN Put(accounts, sender, <<accounts[sender][1], accounts[sender][2] - value>>)
    ELSE accounts

\* the update of the sender account that debits one unit less than the value
debit_less(accounts, sender, value) ==
    IF sender \in DOMAIN accounts
    THEN Put(accounts, sender, <<accounts[sender][1] + 1, accounts[sender][2] - (value - 1)>>)
    ELSE accounts

\* State::apply_transaction, the update of the sender account
debit_sender(accounts, sender, value) ==
    IF sender \in DOMAIN accounts
    THEN Put(accounts, sender, <<accounts[sender][1] + 1, accounts[sender][2] - value>>)
    ELSE accounts

\* the receiver account set to the transferred value
credit_overwrite(accounts, receiver, value) ==
    IF receiver \in DOMAIN accounts
    THEN Put(accounts, receiver, <<accounts[receiver][1], value>>)
    ELSE Put(accounts, receiver, <<0, value>>)

\* State::apply_transaction, the update or creation of the receiver account
credit_receiver(accounts, receiver, value) ==
    IF receiver \in DOMAIN accounts
    THEN Put(accounts, receiver, <<accounts[receiver][1], accounts[receiver][2] + value>>)
    ELSE Put(accounts, receiver, <<0, value>>)

\* State::apply_transaction
apply_transaction(state, tx) ==
    [accounts |-> credit_receiver(debit_sender(state.accounts, sender_address(tx),
                                               tx.transaction.value),
                                  tx.transaction.receiver, tx.transaction.value)]

\* the maintenance pass evicting the valid transactions
update_evicts_valid(mp, state) ==
    [mp EXCEPT !.pool = [h \in {k \in DOMAIN @ : ~is_valid_transaction(state, @[k])}
                            |-> @[h]]]

\* Mempool::update_with_state
update_with_state(mp, state) ==
    remove_transactions(mp,
        LET invalid == {h \in DOMAIN mp.pool : ~is_valid_transaction(state, mp.pool[h])}
        IN  CHOOSE q \in [1 .. Cardinality(invalid) -> invalid] :
                \A i, j \in DOMAIN q : i # j => q[i] # q[j])

\* the address that no key pair in use owns
NoKeyAddress == from_public_key_bytes(public_key("none"))

\* a signed transaction whose signature is the signature of another transfer
Tampered(key, receiver, value, nonce) ==
    SignedTransaction(Transaction(receiver, value, nonce),
                      sign(Transaction(receiver, value + 1, nonce), key),
                      public_key(key))

\* the transactions offered to the account state: every key pair as sender,
\* every address as receiver (the sender's own too)
StateTxs ==
    {Signed(k, r, v, n) : k \in Keys, r \in Addresses, v \in {1, MaxValue},
                          n \in 1 .. MaxTxNonce}

\* the transactions offered to the mempool: transfers between the key pairs
\* and transfers with a tampered signature
PoolTxs ==
    {Signed(k, NoKeyAddress, v, n) : k \in Keys, v \in {1, MaxValue}, n \in 1 .. MaxTxNonce}
    \cup {Tampered(k, NoKeyAddress, 1, 1) : k \in Keys}

\* the account states after at most n accepted transactions of StateTxs are
\* applied to State::new
RECURSIVE StatesAfter(_)
StatesAfter(n) ==
    IF n = 0 THEN {state_new("k1")}
    ELSE StatesAfter(n - 1) \cup
         {apply_transaction(st, tx) :
            <<st, tx>> \in {x \in StatesAfter(n - 1) \X StateTxs :
                               is_valid_transaction(x[1], x[2])}}

\* ------------------------------------------------------------- merkle tree
\* item.hash() of the item numbered item, and the digest of all zero bytes
leaf_hash(item) == <<item>>
ZeroLeaf == <<0>>

\* SHA256 of the concatenation of two digests: the pair is recoverable from it
node_hash(left, right) == <<Len(left)>> \o left \o right

\* MerkleTree::new, one pass of the while loop: the last node is duplicated
\* when the level is odd, then each pair is hashed
next_level(current_level) ==
    LET padded == IF Len(current_level) % 2 = 1
                  THEN Append(current_level, current_level[Len(current_level)])
                  ELSE current_level
    IN  [k \in 1 .. (Len(padded) \div 2) |-> node_hash(padded[2 * k - 1], padded[2 * k])]

\* MerkleTree::new, the while loop: the levels stored in nodes, each as it
\* was before the duplication of its last node
RECURSIVE levels_from(_)
levels_from(current_level) ==
    IF Len(current_level) > 1
    THEN <<current_level>> \o levels_from(next_level(current_level))
    ELSE <<current_level>>

\* MerkleTree::new
merkle_new(data) ==
    IF data = <<>>
    THEN [nodes |-> <<<<ZeroLeaf>>>>]
    ELSE [nodes |-> levels_from([i \in DOMAIN data |-> leaf_hash(data[i])])]

\* MerkleTree::root
merkle_root(t) == t.nodes[Len(t.nodes)][1]

\* MerkleTree::proof, the for loop from level k on; indices count from 0
RECURSIVE proof_from(_, _, _)
proof_from(t, k, current_index) ==
    IF k >= Len(t.nodes) THEN <<>>
    ELSE LET sibling_index == IF current_index % 2 = 0
                              THEN current_index + 1
                              ELSE current_index - 1
         IN  (IF sibling_index < Len(t.nodes[k])
              THEN <<t.nodes[k][sibling_index + 1]>>
              ELSE <<>>)
             \o proof_from(t, k + 1, current_index \div 2)

\* MerkleTree::proof
merkle_proof(t, index) == proof_from(t, 1, index)

\* verify, the for loop over the proof
RECURSIVE verify_from(_, _, _)
verify_from(hash, proof, index) ==
    IF proof = <<>> THEN hash
    ELSE verify_from(IF index % 2 = 0
                     THEN node_hash(hash, Head(proof))
                     ELSE node_hash(Head(proof), hash),
                     Tail(proof), index \div 2)

\* verify(root, datum, proof, index, leaf_size)
merkle_verify(root, datum, proof, index, leaf_size) ==
    IF index >= leaf_size THEN FALSE
    ELSE verify_from(datum, proof, index) = root

\* the lists of items a tree is built from
MerkleData == UNION {[1 .. n -> 1 .. ItemCount] : n \in 0 .. MaxLeaves}

\* ------------------------------------------------------- threads and locks
\* the network worker threads (main.rs starts p2p_workers of them, all
\* running worker_loop over the same ledger and orphan buffer)
Workers == {"w1", "w2"}

\* Mutex<Blockchain> and Mutex<HashMap<H256, Vec<Block>>> of network::worker,
\* and Mutex<Mempool> of miner::worker and the generator
Locks == {"ledger", "orphans", "mempool"}

Free == "free"

\* a worker blocked in  self.msg_chan.recv()
Idle == [pc |-> "recv", msg |-> NoMessage, rest |-> <<>>, new |-> <<>>]

\* the messages the concurrent workers receive: each block of the peer's
\* chain alone, an announcement and a request of its first block
LockMessages ==
    {Blocks(<<b>>) : b \in UNION {NetLevel(d) : d \in 1 .. LockDepth}}
    \cup {NewBlockHashes(<<BlockHash(b)>>) : b \in NetLevel(1)}
    \cup {GetBlocks(<<BlockHash(b)>>) : b \in NetLevel(1)}

\* Blocks handler: block passes the PoW check and its parent is not held
is_orphan(bc, b) ==
    /\ DigestLe(BlockHash(b), get_difficulty(b))
    /\ get_parent(b) \notin DOMAIN bc.blocks

\* ------------------------------------------------------------------- state
VARIABLES
    blockchain,            \* the ledger: [blocks, heights, tip]
    operating_state,       \* Context.operating_state of the miner
    control_chan,          \* control signals sent and not yet received
    finished_block_chan,   \* blocks the miner has sent on finished_block_chan
    pc,                    \* position of the miner thread in miner_loop
    parent_hash,           \* miner_loop's local parent_hash
    block,                 \* miner_loop's local candidate block
    exit_consumed,         \* history: the miner has received an Exit signal
    lastOp,                \* history: the operation of the last step
    firstAt,               \* history: height -> first block inserted at it
    ooo,                   \* history: progress of insert(C), insert(P), insert(C)
    orphan_buffer,         \* Worker.orphan_buffer: parent hash -> buffered blocks
    net_pc,                \* position of the network worker in worker_loop
    msg,                   \* the message the network worker dequeued
    sent,                  \* what the handler of msg wrote and broadcast, in order
    holder,                \* lock -> the thread that holds it, or Free
    wk,                    \* network worker thread -> its position and locals
    mempool,               \* the Mempool shared by miner worker and generator
    mw,                    \* the miner worker thread: position, block, broadcast
    gen,                   \* the generator thread: position, transaction
    peer_b,                \* the ledger of the peer B of the node (A)
    to_a,                  \* messages B sent to the node, not yet handled
    to_b,                  \* messages the node sent to B, not yet handled
    state,                 \* the account State
    call,                  \* history: the last call on the mempool, state or tree
    applied,               \* history: the transactions applied to the State
    tree                   \* the MerkleTree, with the data it was built from

vars == <<blockchain, operating_state, control_chan, finished_block_chan,
          pc, parent_hash, block, exit_consumed, lastOp, firstAt, ooo,
          orphan_buffer, net_pc, msg, sent, holder, wk, mempool, mw, gen,
          peer_b, to_a, to_b, state, call, applied, tree>>

netVars == <<orphan_buffer, net_pc, msg, sent>>

lockVars == <<holder, wk>>

commitVars == <<mempool, mw, gen>>

syncVars == <<peer_b, to_a, to_b>>

accountVars == <<state, call, applied>>

\* the variables the ledger, miner and single-worker specifications leave alone
restVars == <<lockVars, commitVars, syncVars, accountVars, tree>>

minerVars == <<operating_state, control_chan, finished_block_chan,
               pc, parent_hash, block, exit_consumed>>

Op(name, b, ret) == [op |-> name, block |-> b, ret |-> ret]

OooIdle == [phase |-> 0, p |-> Nil, c |-> Nil, tip0 |-> Nil, tips |-> <<>>]

\* the children of the block of hash h that generate_random_block builds
TestChildren(h) == {generate_random_block(h, n) : n \in TestNonces}

\* history of the calls insert(C), insert(P), insert(C) with P a child of the
\* tip held before the first call and C a child of P: the tip after each call
OooNext(o, bc, b, bc1) ==
    IF o.phase = 1 /\ b = o.p
    THEN [o EXCEPT !.phase = 2, !.tips = Append(@, bc1.tip)]
    ELSE IF o.phase = 2 /\ b = o.c
    THEN [o EXCEPT !.phase = 3, !.tips = Append(@, bc1.tip)]
    ELSE IF \E p \in TestChildren(bc.tip) : BlockHash(p) = get_parent(b)
    THEN [phase |-> 1,
          p     |-> CHOOSE p \in TestChildren(bc.tip) : BlockHash(p) = get_parent(b),
          c     |-> b,
          tip0  |-> bc.tip,
          tips  |-> <<bc1.tip>>]
    ELSE OooIdle

\* history: the first block that was recorded at each height
FirstAtNext(f, b, bc1) ==
    LET h == BlockHash(b)
    IN  IF h \in DOMAIN bc1.heights /\ bc1.heights[h] \notin DOMAIN f
        THEN Put(f, bc1.heights[h], h)
        ELSE f

\* a call op(arg) on the value before, and what it returned
Call(op, arg, result, before) ==
    [op |-> op, arg |-> arg, result |-> result, before |-> before]

\* --------------------------------------------------------------------- init
Init ==
    /\ blockchain = new
    /\ operating_state = miner_new
    /\ control_chan = <<>>
    /\ finished_block_chan = <<>>
    /\ pc = "loop"
    /\ parent_hash = Nil
    /\ block = Nil
    /\ exit_consumed = FALSE
    /\ lastOp = Op("new", Nil, <<>>)
    /\ firstAt = Put(<<>>, 0, genesis_hash)
    /\ ooo = OooIdle
    /\ orphan_buffer = <<>>
    /\ net_pc = "recv"
    /\ msg = NoMessage
    /\ sent = <<>>
    /\ holder = [l \in Locks |-> Free]
    /\ wk = [w \in Workers |-> Idle]
    /\ mempool = mempool_new(MaxPool)
    /\ mw = [pc |-> "recv", block |-> genesis_block, cast |-> <<>>, removed |-> {}]
    /\ gen = [pc |-> "create", tx |-> <<>>]
    /\ peer_b = new
    /\ to_a = <<>>
    /\ to_b = <<>>
    /\ state = state_new("k1")
    /\ applied = {}
    /\ call = Call("new", <<>>, <<>>, <<>>)
    /\ tree = [data |-> <<>>, nodes |-> merkle_new(<<>>).nodes]

\* ------------------------------------------------------------ ledger actions
\* a call blockchain.insert(&b)
Insert(b) ==
    LET bc1 == insert(blockchain, b)
    IN  /\ Cardinality(DOMAIN bc1.blocks) <= MaxBlocks + 1
        /\ blockchain' = bc1
        /\ lastOp' = Op("insert",
                        IF BlockHash(b) \in DOMAIN blockchain.blocks
                        THEN "held" ELSE Nil, <<>>)
        /\ firstAt' = FirstAtNext(firstAt, b, bc1)
        /\ ooo' = OooNext(ooo, blockchain, b, bc1)
        /\ UNCHANGED minerVars
        /\ UNCHANGED netVars
        /\ UNCHANGED restVars

\* a call blockchain.all_blocks_in_longest_chain()
LongestChain ==
    /\ lastOp' = Op("all_blocks_in_longest_chain", Nil,
                    all_blocks_in_longest_chain(blockchain))
    /\ UNCHANGED <<blockchain, firstAt, ooo>>
    /\ UNCHANGED minerVars
    /\ UNCHANGED netVars
    /\ UNCHANGED restVars

Next ==
    \/ \E b \in TestBlocks : Insert(b)
    \/ LongestChain

Spec == Init /\ [][Next]_vars

\* ------------------------------------------------------------- miner actions
\* the miner thread has ended: the receiver of control_chan is dropped
MinerEnded == pc \in {"returned", "panicked"}

\* Handle::start, Handle::update, Handle::exit: send a signal; the send fails
\* (and the caller's unwrap panics) once the receiver is dropped
Send(signal) ==
    /\ Len(control_chan) < MaxChan
    /\ IF MinerEnded
       THEN /\ control_chan' = control_chan
            /\ lastOp' = Op("send_err", Nil, <<>>)
       ELSE /\ control_chan' = Append(control_chan, signal)
            /\ lastOp' = Op("send", Nil, <<>>)
    /\ UNCHANGED <<blockchain, operating_state, finished_block_chan, pc,
                   parent_hash, block, exit_consumed, firstAt, ooo>>
    /\ UNCHANGED netVars
    /\ UNCHANGED restVars

\* miner_loop, Paused arm: blocking recv, then continue
MinerPausedRecv ==
    /\ pc = "loop"
    /\ operating_state = Paused
    /\ control_chan # <<>>
    /\ operating_state' = paused_signal(Head(control_chan))
    /\ control_chan' = Tail(control_chan)
    /\ exit_consumed' = (exit_consumed \/ Head(control_chan) = Exit)
    /\ lastOp' = Op("recv", Head(control_chan), <<>>)
    /\ UNCHANGED <<blockchain, finished_block_chan, pc, parent_hash, block,
                   firstAt, ooo>>
    /\ UNCHANGED netVars
    /\ UNCHANGED restVars

\* miner_loop, ShutDown arm: return
MinerReturn ==
    /\ pc = "loop"
    /\ operating_state = ShutDown
    /\ pc' = "returned"
    /\ lastOp' = Op("return", Nil, <<>>)
    /\ UNCHANGED <<blockchain, operating_state, control_chan,
                   finished_block_chan, parent_hash, block, exit_consumed,
                   firstAt, ooo>>
    /\ UNCHANGED netVars
    /\ UNCHANGED restVars

\* miner_loop, Run arm: one try_recv, then the ShutDown check
MinerPoll ==
    /\ pc = "loop"
    /\ operating_state[1] = "Run"
    /\ IF control_chan = <<>>
       THEN /\ pc' = "mine"
            /\ lastOp' = Op("try_recv", <<"Empty">>, <<>>)
            /\ UNCHANGED <<operating_state, control_chan, exit_consumed>>
       ELSE LET r == run_signal(operating_state, Head(control_chan))
            IN  /\ operating_state' = r.state
                /\ control_chan' = Tail(control_chan)
                /\ exit_consumed' = (exit_consumed \/ Head(control_chan) = Exit)
                /\ pc' = IF r.panic THEN "panicked"
                         ELSE IF r.state = ShutDown THEN "returned"
                         ELSE "mine"
                /\ lastOp' = Op("try_recv", Head(control_chan), <<>>)
    /\ UNCHANGED <<blockchain, finished_block_chan, parent_hash, block,
                   firstAt, ooo>>
    /\ UNCHANGED netVars
    /\ UNCHANGED restVars

\* miner_loop, one proof-of-work attempt: read the tip under the lock, build
\* the candidate, check it and send it on finished_block_chan if it is valid
MinerAttempt(nonce) ==
    /\ pc = "mine"
    /\ blockchain.heights[tip(blockchain)] < MaxHeight
    /\ IF operating_state[1] = "Run"
       THEN LET b == candidate_block(tip(blockchain), nonce)
            IN  /\ parent_hash' = tip(blockchain)
                /\ block' = b
                /\ lastOp' = Op("pow", Nil, <<>>)
                /\ IF pow_ok(b)
                   THEN /\ finished_block_chan' = Append(finished_block_chan, b)
                        /\ pc' = "insert"
                   ELSE /\ pc' = "loop"
                        /\ UNCHANGED finished_block_chan
       ELSE /\ pc' = "loop"
            /\ lastOp' = Op("idle", Nil, <<>>)
            /\ UNCHANGED <<parent_hash, block, finished_block_chan>>
    /\ UNCHANGED <<blockchain, operating_state, control_chan, exit_consumed,
                   firstAt, ooo>>
    /\ UNCHANGED netVars
    /\ UNCHANGED restVars

\* miner_loop with an insert that drops the mined block when its parent is
\* no longer the tip
MinerInsert_drops_stale ==
    /\ pc = "insert"
    /\ blockchain' = IF get_parent(block) = tip(blockchain)
                     THEN insert(blockchain, block)
                     ELSE blockchain
    /\ pc' = "loop"
    /\ lastOp' = Op("miner_insert", Nil, <<>>)
    /\ UNCHANGED <<operating_state, control_chan, finished_block_chan,
                   parent_hash, block, exit_consumed, firstAt, ooo>>
    /\ UNCHANGED netVars
    /\ UNCHANGED restVars

\* miner_loop: insert the mined block under the lock, then sleep
MinerInsert ==
    /\ pc = "insert"
    /\ blockchain' = insert(blockchain, block)
    /\ pc' = "loop"
    /\ lastOp' = Op("miner_insert", Nil, <<>>)
    /\ UNCHANGED <<operating_state, control_chan, finished_block_chan,
                   parent_hash, block, exit_consumed, firstAt, ooo>>
    /\ UNCHANGED netVars
    /\ UNCHANGED restVars

\* another thread of the node inserts a block: a network worker one of a
\* peer, the miner worker one it received on finished_block_chan
NetInsert(b) ==
    /\ blockchain' = insert(blockchain, b)
    /\ lastOp' = Op("net_insert", Nil, <<>>)
    /\ UNCHANGED <<firstAt, ooo>>
    /\ UNCHANGED minerVars
    /\ UNCHANGED netVars
    /\ UNCHANGED restVars

NextMiner ==
    \/ \E signal \in Signals : Send(signal)
    \/ MinerPausedRecv
    \/ MinerReturn
    \/ MinerPoll
    \/ \E nonce \in MinerNonces : MinerAttempt(nonce)
    \/ MinerInsert
    \/ \E b \in NetBlocks \cup {finished_block_chan[i] : i \in DOMAIN finished_block_chan} :
          NetInsert(b)

SpecMiner == Init /\ [][NextMiner]_vars

\* the miner as the only thread that inserts into the ledger (the miner tests)
NextMinerOnly ==
    \/ \E signal \in Signals : Send(signal)
    \/ MinerPausedRecv
    \/ MinerReturn
    \/ MinerPoll
    \/ \E nonce \in MinerNonces : MinerAttempt(nonce)
    \/ MinerInsert

SpecMinerOnly == Init /\ [][NextMinerOnly]_vars

\* --------------------------------------------------- network worker actions
\* worker_loop: msg_chan.recv() gives the next message of the peer
NetRecv(m) ==
    /\ net_pc = "recv"
    /\ m[1] = "Blocks" =>
          BufferedCount(blocks_loop([bc |-> blockchain, ob |-> orphan_buffer,
                                     out |-> <<>>, new |-> <<>>], m[2]).ob)
             <= MaxOrphans
    /\ msg' = m
    /\ net_pc' = "handle"
    /\ UNCHANGED <<blockchain, orphan_buffer, sent, lastOp, firstAt, ooo>>
    /\ UNCHANGED minerVars
    /\ UNCHANGED restVars

\* worker_loop: the match arm of msg, with process_orphans for Blocks; the
\* arm needs the ledger lock
NetHandle ==
    /\ net_pc = "handle"
    /\ msg[1] \in Supported
    /\ holder["ledger"] = Free
    /\ \E r \in handle(blockchain, orphan_buffer, msg) :
          /\ blockchain' = r.bc
          /\ orphan_buffer' = r.ob
          /\ sent' = r.out
    /\ net_pc' = "done"
    /\ UNCHANGED <<msg, lastOp, firstAt, ooo>>
    /\ UNCHANGED minerVars
    /\ UNCHANGED restVars

\* worker_loop: the iteration ends, msg and peer are dropped
NetLoop ==
    /\ net_pc = "done"
    /\ net_pc' = "recv"
    /\ msg' = NoMessage
    /\ sent' = <<>>
    /\ UNCHANGED <<blockchain, orphan_buffer, lastOp, firstAt, ooo>>
    /\ UNCHANGED minerVars
    /\ UNCHANGED restVars

NextNet ==
    \/ \E m \in Messages : NetRecv(m)
    \/ NetHandle
    \/ NetLoop

SpecNet == Init /\ [][NextNet]_vars

\* worker_loop: the match arm _ => unimplemented!() with a variant that
\* continues the loop instead of panicking
NetUnimplemented_continues ==
    /\ net_pc = "handle"
    /\ msg[1] \notin Supported
    /\ net_pc' = "done"
    /\ UNCHANGED <<blockchain, orphan_buffer, msg, sent, lastOp, firstAt, ooo>>
    /\ UNCHANGED minerVars
    /\ UNCHANGED restVars

\* worker_loop: the match arm _ => unimplemented!() panics, which ends the
\* thread of this worker; no lock is held and nothing has been sent
NetUnimplemented ==
    /\ net_pc = "handle"
    /\ msg[1] \notin Supported
    /\ net_pc' = "panicked"
    /\ UNCHANGED <<blockchain, orphan_buffer, msg, sent, lastOp, firstAt, ooo>>
    /\ UNCHANGED minerVars
    /\ UNCHANGED restVars

\* the messages of every kind a peer sends: the pings and pongs, the
\* announcement of a transaction the generator of the peer broadcasts, and
\* the block messages of at most one entry
KindMessages ==
    {Ping(n) : n \in 0 .. 1}
      \cup {Pong(to_string(n)) : n \in 0 .. 1}
      \cup {NewTransactionHashes(<<tx_hash(tx)>>) : tx \in GenTransactions}
      \cup {NewBlockHashes(hashes) : hashes \in SeqsUpTo(PeerHashes, 1)}
      \cup {GetBlocks(hashes) : hashes \in SeqsUpTo(PeerHashes, 1)}
      \cup {Blocks(blocks) : blocks \in SeqsUpTo(PeerBlocks, 1)}

NextKinds ==
    \/ \E m \in KindMessages : NetRecv(m)
    \/ NetHandle
    \/ NetUnimplemented
    \/ NetLoop

SpecKinds == Init /\ [][NextKinds]_vars

\* -------------------------------------- network workers, lock by lock
\* what the steps of the concurrent workers leave alone
lockFrame == <<minerVars, lastOp, firstAt, ooo, net_pc, msg, sent, commitVars,
               syncVars, accountVars, tree>>

\* the blocks the workers in a Blocks handler may still buffer
Pending == {w \in Workers : wk[w].rest # <<>>}

\* worker w takes message m from msg_chan
LkRecv(w, m) ==
    /\ wk[w].pc = "recv"
    /\ m[1] = "Blocks" =>
          BufferedCount(orphan_buffer) + Cardinality(Pending) + 1 <= MaxOrphans
    /\ wk' = [wk EXCEPT ![w] = [Idle EXCEPT !.pc = "handle", !.msg = m]]
    /\ UNCHANGED <<blockchain, orphan_buffer, holder>>
    /\ UNCHANGED lockFrame

\* NewBlockHashes and GetBlocks handlers: the ledger is locked, read and
\* dropped; the reply, if any, is written after the drop
LkLookup(w) ==
    /\ wk[w].pc = "handle"
    /\ wk[w].msg[1] \in {"NewBlockHashes", "GetBlocks"}
    /\ holder["ledger"] = Free
    /\ wk' = [wk EXCEPT ![w] =
                 IF handle(blockchain, orphan_buffer, wk[w].msg)
                        = {[bc |-> blockchain, ob |-> orphan_buffer,
                            out |-> <<>>, casts |-> <<>>]}
                 THEN Idle
                 ELSE [@ EXCEPT !.pc = "write"]]
    /\ UNCHANGED <<blockchain, orphan_buffer, holder>>
    /\ UNCHANGED lockFrame

\* peer.write(GetBlocks(..)) or peer.write(Blocks(..)) of those handlers
LkWrite(w) ==
    /\ wk[w].pc = "write"
    /\ wk' = [wk EXCEPT ![w] = Idle]
    /\ UNCHANGED <<blockchain, orphan_buffer, holder>>
    /\ UNCHANGED lockFrame

\* Blocks handler:  let mut blockchain = self.blockchain.lock().unwrap()
LkLockLedger(w) ==
    /\ wk[w].pc = "handle"
    /\ wk[w].msg[1] = "Blocks"
    /\ holder["ledger"] = Free
    /\ holder' = [holder EXCEPT !["ledger"] = w]
    /\ wk' = [wk EXCEPT ![w] = [@ EXCEPT !.pc = "loop", !.rest = wk[w].msg[2]]]
    /\ UNCHANGED <<blockchain, orphan_buffer>>
    /\ UNCHANGED lockFrame

\* Blocks handler, one block that is not an orphan: dropped or inserted
LkBlock(w) ==
    /\ wk[w].pc = "loop"
    /\ wk[w].rest # <<>>
    /\ ~is_orphan(blockchain, Head(wk[w].rest))
    /\ LET s == blocks_step([bc |-> blockchain, ob |-> orphan_buffer,
                             out |-> <<>>, new |-> wk[w].new], Head(wk[w].rest))
       IN  /\ blockchain' = s.bc
           /\ wk' = [wk EXCEPT ![w] = [@ EXCEPT !.rest = Tail(@), !.new = s.new]]
    /\ UNCHANGED <<orphan_buffer, holder>>
    /\ UNCHANGED lockFrame

\* Blocks handler, an orphan:  self.orphan_buffer.lock().unwrap().entry(..)
\* .push(block) waits for the orphan-buffer lock with the ledger lock held;
\* the guard of the buffer is a temporary, dropped at the end of the statement
LkPush(w) ==
    /\ wk[w].pc = "loop"
    /\ wk[w].rest # <<>>
    /\ is_orphan(blockchain, Head(wk[w].rest))
    /\ holder["orphans"] = Free
    /\ orphan_buffer' = push_orphan(orphan_buffer, get_parent(Head(wk[w].rest)),
                                    Head(wk[w].rest))
    /\ wk' = [wk EXCEPT ![w] = [@ EXCEPT !.pc = "write_parent"]]
    /\ UNCHANGED <<blockchain, holder>>
    /\ UNCHANGED lockFrame

\* Blocks handler, an orphan:  peer.write(GetBlocks(vec![parent_hash]))
LkWriteParent(w) ==
    /\ wk[w].pc = "write_parent"
    /\ wk' = [wk EXCEPT ![w] = [@ EXCEPT !.pc = "loop", !.rest = Tail(@)]]
    /\ UNCHANGED <<blockchain, orphan_buffer, holder>>
    /\ UNCHANGED lockFrame

\* Blocks handler:  drop(blockchain)  after the for loop
LkDropLedger(w) ==
    /\ wk[w].pc = "loop"
    /\ wk[w].rest = <<>>
    /\ holder' = [holder EXCEPT !["ledger"] = Free]
    /\ wk' = [wk EXCEPT ![w] = [@ EXCEPT !.pc = IF wk[w].new # <<>>
                                                 THEN "broadcast"
                                                 ELSE "lock_orphans"]]
    /\ UNCHANGED <<blockchain, orphan_buffer>>
    /\ UNCHANGED lockFrame

\* server.broadcast(NewBlockHashes(new_block_hashes)) of the Blocks handler
\* and of a pass of process_orphans; both go on to a pass of process_orphans
LkBroadcast(w) ==
    /\ wk[w].pc = "broadcast"
    /\ wk' = [wk EXCEPT ![w] = [@ EXCEPT !.pc = "lock_orphans", !.new = <<>>]]
    /\ UNCHANGED <<blockchain, orphan_buffer, holder>>
    /\ UNCHANGED lockFrame

\* process_orphans:  let mut orphan_buffer = self.orphan_buffer.lock().unwrap()
LkLockOrphans(w) ==
    /\ wk[w].pc = "lock_orphans"
    /\ holder["orphans"] = Free
    /\ holder' = [holder EXCEPT !["orphans"] = w]
    /\ wk' = [wk EXCEPT ![w] = [@ EXCEPT !.pc = "lock_ledger"]]
    /\ UNCHANGED <<blockchain, orphan_buffer>>
    /\ UNCHANGED lockFrame

\* process_orphans:  let mut blockchain = self.blockchain.lock().unwrap()
LkOrphansLedger(w) ==
    /\ wk[w].pc = "lock_ledger"
    /\ holder["ledger"] = Free
    /\ holder' = [holder EXCEPT !["ledger"] = w]
    /\ wk' = [wk EXCEPT ![w] = [@ EXCEPT !.pc = "scan"]]
    /\ UNCHANGED <<blockchain, orphan_buffer>>
    /\ UNCHANGED lockFrame

\* process_orphans: the for loop over the buffer, then both locks dropped;
\* the pass that processed nothing ends the while loop
LkScan(w) ==
    /\ wk[w].pc = "scan"
    /\ \E order \in KeyOrders(orphan_buffer) :
          LET s == orphan_scan([bc |-> blockchain, ob |-> orphan_buffer,
                                new |-> <<>>], orphan_buffer, order)
          IN  /\ blockchain' = s.bc
              /\ orphan_buffer' = s.ob
              /\ wk' = [wk EXCEPT ![w] = IF s.new # <<>>
                                         THEN [@ EXCEPT !.pc = "broadcast",
                                                        !.new = s.new]
                                         ELSE Idle]
    /\ holder' = [l \in Locks |-> Free]
    /\ UNCHANGED lockFrame

NextLocks ==
    \/ \E w \in Workers, m \in LockMessages : LkRecv(w, m)
    \/ \E w \in Workers : LkLookup(w)
    \/ \E w \in Workers : LkWrite(w)
    \/ \E w \in Workers : LkLockLedger(w)
    \/ \E w \in Workers : LkBlock(w)
    \/ \E w \in Workers : LkPush(w)
    \/ \E w \in Workers : LkWriteParent(w)
    \/ \E w \in Workers : LkDropLedger(w)
    \/ \E w \in Workers : LkBroadcast(w)
    \/ \E w \in Workers : LkLockOrphans(w)
    \/ \E w \in Workers : LkOrphansLedger(w)
    \/ \E w \in Workers : LkScan(w)

SpecLocks == Init /\ [][NextLocks]_vars

\* --------------------------- miner worker and generator, lock by lock
\* what the steps of the miner worker and of the generator leave alone
commitFrame == <<operating_state, control_chan, pc, parent_hash, block,
                 exit_consumed, lastOp, firstAt, ooo, netVars, wk, syncVars,
                 accountVars, tree>>

\* a block is sent on finished_block_chan: it extends the tip, its hash meets
\* the difficulty, and it carries the transactions txs
ChanSend(nonce, txs) ==
    /\ blockchain.heights[tip(blockchain)] + Len(finished_block_chan) < MaxMined
    /\ pow_ok(candidate_block(tip(blockchain), nonce))
    /\ finished_block_chan' =
          Append(finished_block_chan,
                 [candidate_block(tip(blockchain), nonce) EXCEPT !.content = txs])
    /\ UNCHANGED <<blockchain, holder, mempool, mw, gen>>
    /\ UNCHANGED commitFrame

\* miner worker:  self.finished_block_chan.recv()  and
\* let mut blockchain = self.blockchain.lock().unwrap()
MwLockLedger ==
    /\ mw.pc = "recv"
    /\ finished_block_chan # <<>>
    /\ holder["ledger"] = Free
    /\ holder' = [holder EXCEPT !["ledger"] = "miner_worker"]
    /\ mw' = [pc |-> "insert", block |-> Head(finished_block_chan),
              cast |-> <<>>, removed |-> {}]
    /\ finished_block_chan' = Tail(finished_block_chan)
    /\ UNCHANGED <<blockchain, mempool, gen>>
    /\ UNCHANGED commitFrame

\* the miner worker keeping the ledger lock after the insert
MwInsert_keeps_lock ==
    /\ mw.pc = "insert"
    /\ blockchain' = insert(blockchain, mw.block)
    /\ mw' = [mw EXCEPT !.pc = "broadcast"]
    /\ UNCHANGED <<finished_block_chan, mempool, gen, holder>>
    /\ UNCHANGED commitFrame

\* miner worker:  blockchain.insert(&block); drop(blockchain)
MwInsert ==
    /\ mw.pc = "insert"
    /\ blockchain' = insert(blockchain, mw.block)
    /\ holder' = [holder EXCEPT !["ledger"] = Free]
    /\ mw' = [mw EXCEPT !.pc = "broadcast"]
    /\ UNCHANGED <<finished_block_chan, mempool, gen>>
    /\ UNCHANGED commitFrame

\* miner worker:  self.server.broadcast(NewBlockHashes(vec![new_block_hash]))
MwBroadcast ==
    /\ mw.pc = "broadcast"
    /\ mw' = [mw EXCEPT !.pc = "lock_mempool", !.cast = <<BlockHash(mw.block)>>]
    /\ UNCHANGED <<blockchain, finished_block_chan, holder, mempool, gen>>
    /\ UNCHANGED commitFrame

\* miner worker:  let mut mempool = self.mempool.lock().unwrap()
MwLockMempool ==
    /\ mw.pc = "lock_mempool"
    /\ holder["mempool"] = Free
    /\ holder' = [holder EXCEPT !["mempool"] = "miner_worker"]
    /\ mw' = [mw EXCEPT !.pc = "remove"]
    /\ UNCHANGED <<blockchain, finished_block_chan, mempool, gen>>
    /\ UNCHANGED commitFrame

\* the hashes of the transactions of a block, in the order of its content
content_hashes(b) == [i \in DOMAIN b.content |-> tx_hash(b.content[i])]

\* miner worker:  mempool.remove_transactions(tx_hashes); drop(mempool)
MwRemove ==
    /\ mw.pc = "remove"
    /\ mempool' = remove_transactions(mempool, content_hashes(mw.block))
    /\ holder' = [holder EXCEPT !["mempool"] = Free]
    /\ mw' = [mw EXCEPT !.pc = "recv",
                        !.removed = DOMAIN mempool.pool \ DOMAIN mempool'.pool]
    /\ UNCHANGED <<blockchain, finished_block_chan, gen>>
    /\ UNCHANGED commitFrame

\* generator:  create_valid_transaction(nonce)  and  self.mempool.lock()
GenLock(tx) ==
    /\ gen.pc = "create"
    /\ holder["mempool"] = Free
    /\ holder' = [holder EXCEPT !["mempool"] = "generator"]
    /\ gen' = [pc |-> "add", tx |-> tx]
    /\ UNCHANGED <<blockchain, finished_block_chan, mempool, mw>>
    /\ UNCHANGED commitFrame

\* generator:  mempool.add_transaction(transaction.clone()); on Err the lock
\* is dropped and the loop continues
GenAdd ==
    /\ gen.pc = "add"
    /\ LET r == add_transaction(mempool, gen.tx)
       IN  /\ mempool' = r.mempool
           /\ IF r.result = "Ok"
              THEN /\ gen' = [gen EXCEPT !.pc = "broadcast"]
                   /\ UNCHANGED holder
              ELSE /\ gen' = [pc |-> "create", tx |-> <<>>]
                   /\ holder' = [holder EXCEPT !["mempool"] = Free]
    /\ UNCHANGED <<blockchain, finished_block_chan, mw>>
    /\ UNCHANGED commitFrame

\* generator:  self.server.broadcast(NewTransactionHashes(vec![tx_hash]))
\* and drop(mempool)
GenBroadcast ==
    /\ gen.pc = "broadcast"
    /\ gen' = [pc |-> "create", tx |-> <<>>]
    /\ holder' = [holder EXCEPT !["mempool"] = Free]
    /\ UNCHANGED <<blockchain, finished_block_chan, mempool, mw>>
    /\ UNCHANGED commitFrame

NextCommit ==
    \/ \E nonce \in MinerNonces, txs \in Contents : ChanSend(nonce, txs)
    \/ MwLockLedger
    \/ MwInsert
    \/ MwBroadcast
    \/ MwLockMempool
    \/ MwRemove
    \/ \E tx \in GenTransactions : GenLock(tx)
    \/ GenAdd
    \/ GenBroadcast

SpecCommit == Init /\ [][NextCommit]_vars

\* ------------------------------------- the threads of a node that announce
\* a network worker handling the block batches of a peer, next to the miner
\* worker handling the blocks mined on the node
BatchMessages == {Blocks(blocks) : blocks \in SeqsUpTo(PeerBlocks, 1)}

NextNode ==
    \/ \E m \in BatchMessages : NetRecv(m)
    \/ NetHandle
    \/ NetLoop
    \/ \E nonce \in MinerNonces : ChanSend(nonce, <<>>)
    \/ MwLockLedger
    \/ MwInsert
    \/ MwBroadcast
    \/ MwLockMempool
    \/ MwRemove

SpecNode == Init /\ [][NextNode]_vars

\* ------------------------------------------------ the node and one peer
\* what the exchange between the node and its peer leaves alone
syncFrame == <<minerVars, lastOp, firstAt, ooo, net_pc, msg, sent, lockVars,
               commitVars, accountVars, tree>>

\* the messages among the effects of a handler, in the order they are sent;
\* with one peer a broadcast reaches that peer
sent_messages(out) ==
    LET sends == SelectSeq(out, LAMBDA e : e[1] \in {"write", "broadcast"})
    IN  [i \in DOMAIN sends |-> sends[i][2]]

\* B extends its chain by two blocks while A holds the same chain, and A
\* receives NewBlockHashes for the new tip of B only
Announce(n1, n2) ==
    LET b1 == candidate_block(tip(peer_b), n1)
        b2 == candidate_block(BlockHash(b1), n2)
    IN  /\ to_a = <<>> /\ to_b = <<>>
        /\ all_blocks_in_longest_chain(blockchain) = all_blocks_in_longest_chain(peer_b)
        /\ peer_b.heights[tip(peer_b)] + 2 <= SyncHeight
        /\ pow_ok(b1) /\ pow_ok(b2)
        /\ peer_b' = insert(insert(peer_b, b1), b2)
        /\ to_a' = <<NewBlockHashes(<<BlockHash(b2)>>)>>
        /\ UNCHANGED <<blockchain, orphan_buffer, to_b>>
        /\ UNCHANGED syncFrame

\* a worker of A handles the next message from B
HandleA ==
    /\ to_a # <<>>
    /\ \E r \in handle(blockchain, orphan_buffer, Head(to_a)) :
          /\ blockchain' = r.bc
          /\ orphan_buffer' = r.ob
          /\ to_b' = to_b \o sent_messages(r.out)
    /\ to_a' = Tail(to_a)
    /\ UNCHANGED peer_b
    /\ UNCHANGED syncFrame

\* a worker of B handles the next message from A
HandleB ==
    /\ to_b # <<>>
    /\ \E r \in handle(peer_b, <<>>, Head(to_b)) :
          /\ peer_b' = r.bc
          /\ to_a' = to_a \o sent_messages(r.out)
    /\ to_b' = Tail(to_b)
    /\ UNCHANGED <<blockchain, orphan_buffer>>
    /\ UNCHANGED syncFrame

NextSync ==
    \/ \E n1, n2 \in Nonces : Announce(n1, n2)
    \/ HandleA
    \/ HandleB

\* the workers of both peers keep taking messages from their channels
SpecSync == Init /\ [][NextSync]_vars /\ WF_vars(HandleA) /\ WF_vars(HandleB)

\* ------------------------------------------------------ calls on the mempool
\* what the calls on the mempool and on the account state leave alone
accountFrame == <<blockchain, minerVars, lastOp, firstAt, ooo, netVars, lockVars,
                  mw, gen, syncVars, tree>>

\* Mempool::new(max_size)
PoolNew(max_size) ==
    /\ mempool' = mempool_new(max_size)
    /\ call' = Call("new", max_size, <<>>, mempool)
    /\ UNCHANGED <<state, applied>>
    /\ UNCHANGED accountFrame

\* mempool.add_transaction(tx)
PoolAdd(tx) ==
    /\ mempool' = add_transaction(mempool, tx).mempool
    /\ call' = Call("add_transaction", tx, add_transaction(mempool, tx).result, mempool)
    /\ UNCHANGED <<state, applied>>
    /\ UNCHANGED accountFrame

\* mempool.remove_transactions(vec![tx.hash()])
PoolRemove(tx) ==
    /\ mempool' = remove_transactions(mempool, <<tx_hash(tx)>>)
    /\ call' = Call("remove_transactions", tx, <<>>, mempool)
    /\ UNCHANGED <<state, applied>>
    /\ UNCHANGED accountFrame

\* mempool.update_with_state(&st)
PoolUpdate(st) ==
    /\ mempool' = update_with_state(mempool, st)
    /\ call' = Call("update_with_state", st, <<>>, mempool)
    /\ UNCHANGED <<state, applied>>
    /\ UNCHANGED accountFrame

NextPool ==
    \/ \E max_size \in 1 .. MaxPool : PoolNew(max_size)
    \/ \E tx \in PoolTxs : PoolAdd(tx)
    \/ \E tx \in PoolTxs : PoolRemove(tx)
    \/ \E st \in StatesAfter(1) : PoolUpdate(st)

SpecPool == Init /\ [][NextPool]_vars

\* ------------------------------------------------ calls on the account state
\* State::new(seed)
StateNew(key) ==
    /\ state' = state_new(key)
    /\ call' = Call("new", key, <<>>, state)
    /\ applied' = {}
    /\ UNCHANGED mempool
    /\ UNCHANGED accountFrame

\* state.is_valid_transaction(&tx)
StateValidate(tx) ==
    /\ call' = Call("is_valid_transaction", tx, is_valid_transaction(state, tx), state)
    /\ UNCHANGED <<state, mempool, applied>>
    /\ UNCHANGED accountFrame

\* state.apply_transaction(&tx) for a transaction the state accepts
StateApply(tx) ==
    /\ Cardinality(applied) < MaxApplied
    /\ is_valid_transaction(state, tx)
    /\ state' = apply_transaction(state, tx)
    /\ call' = Call("apply_transaction", tx, <<>>, state)
    /\ applied' = applied \cup {tx}
    /\ UNCHANGED mempool
    /\ UNCHANGED accountFrame

NextState ==
    \/ \E key \in Keys : StateNew(key)
    \/ \E tx \in StateTxs : StateValidate(tx)
    \/ \E tx \in StateTxs : StateApply(tx)

SpecState == Init /\ [][NextState]_vars

\* ------------------------------------------------- calls on the merkle tree
\* what the calls on the merkle tree leave alone
merkleFrame == <<blockchain, minerVars, lastOp, firstAt, ooo, netVars, lockVars,
                 commitVars, syncVars, state, applied>>

\* the digests a caller may pass to verify: leaves, the zero digest and the
\* nodes of the tree
Digests ==
    {leaf_hash(i) : i \in 1 .. ItemCount} \cup {ZeroLeaf}
    \cup UNION {{tree.nodes[k][i] : i \in DOMAIN tree.nodes[k]} : k \in DOMAIN tree.nodes}

\* the proofs that differ from proof in exactly the entry k
ProofsChangedAt(proof, k) ==
    {[proof EXCEPT ![k] = d] : d \in Digests \ {proof[k]}}

\* MerkleTree::new(&data)
MerkleNew(data) ==
    /\ tree' = [data |-> data, nodes |-> merkle_new(data).nodes]
    /\ call' = Call("merkle_new", data, <<>>, <<>>)
    /\ UNCHANGED merkleFrame

\* verify(&tree.root(), &data[index].hash(), &tree.proof(index), index, data.len())
MerkleVerify(index) ==
    /\ index < Len(tree.data)
    /\ call' = Call("verify",
                    [datum |-> leaf_hash(tree.data[index + 1]),
                     proof |-> merkle_proof(tree, index),
                     index |-> index, changed |-> "nothing"],
                    merkle_verify(merkle_root(tree), leaf_hash(tree.data[index + 1]),
                                  merkle_proof(tree, index), index, Len(tree.data)),
                    <<>>)
    /\ UNCHANGED tree
    /\ UNCHANGED merkleFrame

\* verify called with the proof of index, one of its entries changed
MerkleVerifyProof(index, k) ==
    /\ index < Len(tree.data)
    /\ k \in DOMAIN merkle_proof(tree, index)
    /\ \E proof \in ProofsChangedAt(merkle_proof(tree, index), k) :
          call' = Call("verify",
                       [datum |-> leaf_hash(tree.data[index + 1]),
                        proof |-> proof, index |-> index, changed |-> "proof"],
                       merkle_verify(merkle_root(tree), leaf_hash(tree.data[index + 1]),
                                     proof, index, Len(tree.data)),
                       <<>>)
    /\ UNCHANGED tree
    /\ UNCHANGED merkleFrame

\* verify called with the proof of index and another index
MerkleVerifyIndex(index, other) ==
    /\ index < Len(tree.data)
    /\ other # index
    /\ call' = Call("verify",
                    [datum |-> leaf_hash(tree.data[index + 1]),
                     proof |-> merkle_proof(tree, index),
                     index |-> other, changed |-> "index"],
                    merkle_verify(merkle_root(tree), leaf_hash(tree.data[index + 1]),
                                  merkle_proof(tree, index), other, Len(tree.data)),
                    <<>>)
    /\ UNCHANGED tree
    /\ UNCHANGED merkleFrame

\* verify called with the proof of index and another datum
MerkleVerifyDatum(index) ==
    /\ index < Len(tree.data)
    /\ \E datum \in Digests \ {leaf_hash(tree.data[index + 1])} :
          call' = Call("verify",
                       [datum |-> datum, proof |-> merkle_proof(tree, index),
                        index |-> index, changed |-> "datum"],
                       merkle_verify(merkle_root(tree), datum,
                                     merkle_proof(tree, index), index, Len(tree.data)),
                       <<>>)
    /\ UNCHANGED tree
    /\ UNCHANGED merkleFrame

NextMerkle ==
    \/ \E data \in MerkleData : MerkleNew(data)
    \/ \E index \in 0 .. MaxLeaves - 1 : MerkleVerify(index)
    \/ \E index \in 0 .. MaxLeaves - 1, k \in 1 .. MaxLeaves : MerkleVerifyProof(index, k)
    \/ \E index \in 0 .. MaxLeaves - 1, other \in 0 .. MaxLeaves : MerkleVerifyIndex(index, other)
    \/ \E index \in 0 .. MaxLeaves - 1 : MerkleVerifyDatum(index)

SpecMerkle == Init /\ [][NextMerkle]_vars

\* ------------------------------------------------------------------ helpers
Range(s) == {s[i] : i \in DOMAIN s}

RECURSIVE SetMax(_)
SetMax(S) ==
    LET x == CHOOSE x \in S : TRUE
    IN  IF S = {x} THEN x
        ELSE LET m == SetMax(S \ {x}) IN IF x > m THEN x ELSE m

Held == DOMAIN blockchain.blocks

HeightOf(h) == blockchain.heights[h]

TipHeight == blockchain.heights[blockchain.tip]

\* ------------------------------------------------------------ ledger claims
\* the blocks generate_random_block can build on a held block
Extending == UNION {TestChildren(h) : h \in Held}

\* C1: in every reachable ledger state the height recorded for tip() is the
\* maximum height recorded over all blocks held in the ledger.
C1_TipHeightIsMax ==
    TipHeight = SetMax({blockchain.heights[h] : h \in DOMAIN blockchain.heights})

\* a fork has been overtaken: a block that was the first at its height, and
\* so was the tip, is no longer on the longest chain
C1_Witness ==
    \E h \in Held :
        /\ HeightOf(h) >= 1
        /\ firstAt[HeightOf(h)] = h
        /\ \A i \in DOMAIN all_blocks_in_longest_chain(blockchain) :
              all_blocks_in_longest_chain(blockchain)[i] # h

\* C2: insert changes the tip only to the inserted block and only when its
\* height is strictly greater than the height of the current tip; a block
\* inserted at the height of the current tip leaves the tip unchanged, so
\* the tip is the first block that was inserted at its height.
C2_TieBreak ==
    /\ \A b \in TestBlocks \cup Extending :
          LET bc1 == insert(blockchain, b)
              h   == BlockHash(b)
          IN  /\ bc1.tip # blockchain.tip =>
                   /\ bc1.tip = h
                   /\ bc1.heights[h] > TipHeight
              /\ (h \in DOMAIN bc1.heights /\ bc1.heights[h] = TipHeight) =>
                   bc1.tip = blockchain.tip
    /\ blockchain.tip = firstAt[TipHeight]

\* a second block was inserted at the height of the tip and is not the tip
C2_Witness ==
    /\ TipHeight > 0
    /\ \E h \in Held : h # blockchain.tip /\ HeightOf(h) = TipHeight

\* C3: insert of a block whose parent hash is not in the ledger changes
\* neither the block map, nor the height map, nor the tip.
C3_UnknownParentNoOp ==
    \A b \in TestBlocks :
        get_parent(b) \notin Held =>
            LET bc1 == insert(blockchain, b)
            IN  /\ bc1.blocks = blockchain.blocks
                /\ bc1.heights = blockchain.heights
                /\ bc1.tip = blockchain.tip

\* the last call inserted a block whose parent is not held, into a ledger
\* that holds other blocks
C3_Witness ==
    /\ ooo.phase = 1
    /\ get_parent(ooo.c) \notin Held
    /\ BlockHash(ooo.c) \notin Held
    /\ Cardinality(Held) > 1

\* C4: for P a child of the current tip and C a child of P, the calls
\* insert(C), insert(P), insert(C) leave the tip unchanged, then set it to
\* P, then set it to C.
C4_OutOfOrder ==
    /\ ooo.phase >= 1 => ooo.tips[1] = ooo.tip0
    /\ ooo.phase >= 2 => ooo.tips[2] = BlockHash(ooo.p)
    /\ ooo.phase >= 3 => ooo.tips[3] = BlockHash(ooo.c)

\* the three calls have been made on a ledger whose tip was not genesis
C4_Witness == ooo.phase = 3 /\ ooo.tip0 # genesis_hash

\* C5: all_blocks_in_longest_chain() has length height(tip) + 1, starts with
\* the genesis hash, ends with tip(), and every element's block has the
\* preceding element as its parent.
C5_LongestChainWalk ==
    LET chain == all_blocks_in_longest_chain(blockchain)
    IN  /\ Len(chain) = TipHeight + 1
        /\ chain[1] = genesis_hash
        /\ chain[Len(chain)] = tip(blockchain)
        /\ \A i \in 2 .. Len(chain) :
              /\ chain[i] \in Held
              /\ get_parent(blockchain.blocks[chain[i]]) = chain[i - 1]

\* the walk was called on a ledger with a fork and returned a chain of
\* three hashes or more, which leaves out a held block
C5_Witness ==
    /\ lastOp.op = "all_blocks_in_longest_chain"
    /\ Len(lastOp.ret) >= 3
    /\ lastOp.ret = all_blocks_in_longest_chain(blockchain)
    /\ Cardinality(Held) > Len(lastOp.ret)

\* C6: genesis is held with height 0; every other held block has its parent
\* held, one height below it; the block map and the height map have the
\* same keys.
C6_LedgerShape ==
    /\ genesis_hash \in Held
    /\ blockchain.blocks[genesis_hash] = genesis_block
    /\ blockchain.heights[genesis_hash] = 0
    /\ DOMAIN blockchain.blocks = DOMAIN blockchain.heights
    /\ \A h \in Held \ {genesis_hash} :
          LET parent == get_parent(blockchain.blocks[h])
          IN  /\ parent \in Held
              /\ blockchain.heights[h] = blockchain.heights[parent] + 1

\* a chain of two blocks on genesis is held, and two blocks of one height
C6_Witness ==
    /\ TipHeight >= 2
    /\ \E g, h \in Held : g # h /\ HeightOf(g) = HeightOf(h)

\* C7: the order of two inserts whose parents are both held does not
\* matter for the block map, the height map and the height of the tip;
\* the tips may differ, and then both are at that height.  (Any two orders
\* of a set of blocks that insert each block after its parent differ by
\* exchanges of such adjacent inserts.)
C7_OrderIndependent ==
    LET single == [b \in Extending |-> insert(blockchain, b)]
    IN  \A b1, b2 \in Extending :
            BlockHash(b1)[2] < BlockHash(b2)[2] =>
                LET x == insert(single[b1], b2)
                    y == insert(single[b2], b1)
                IN  /\ x.blocks = y.blocks
                    /\ x.heights = y.heights
                    /\ x.heights[x.tip] = y.heights[y.tip]
                    /\ x.tip # y.tip =>
                         /\ x.heights[x.tip] = x.heights[y.tip]
                         /\ \A h \in DOMAIN x.heights :
                               x.heights[h] <= x.heights[x.tip]

\* two blocks that extend the same parent are held at the height of the
\* tip, one of them the tip: the other order of their inserts gives the
\* other tip
C7_Witness ==
    /\ TipHeight >= 2
    /\ \E h \in Held :
          /\ h # blockchain.tip
          /\ HeightOf(h) = TipHeight
          /\ get_parent(blockchain.blocks[h])
               = get_parent(blockchain.blocks[blockchain.tip])
    /\ \E b1, b2 \in TestChildren(blockchain.tip) :
          insert(insert(blockchain, b1), b2).tip
            # insert(insert(blockchain, b2), b1).tip

\* ------------------------------------------------------------- miner claims
\* the steps in which the miner attempts a proof of work or inserts a block
MinerWork == {"pow", "miner_insert"}

\* C8: the miner starts in Paused; while Paused it makes no proof-of-work
\* attempt, publishes no block and inserts nothing into the ledger, and its
\* state changes only on Start(i), to Run(i), or on Exit, to ShutDown.
C8_PausedIdle ==
    /\ operating_state = Paused
    /\ [][operating_state = Paused =>
            /\ lastOp'.op \notin MinerWork
            /\ pc' = "loop"
            /\ finished_block_chan' = finished_block_chan
            /\ lastOp'.op \in {"recv", "return"} => blockchain' = blockchain
            /\ operating_state' # Paused =>
                 /\ lastOp'.op = "recv"
                 /\ control_chan # <<>>
                 /\ \/ /\ Head(control_chan) = Exit
                       /\ operating_state' = ShutDown
                    \/ /\ Head(control_chan)[1] = "Start"
                       /\ operating_state' = Run(Head(control_chan)[2])]_vars

\* the miner is still Paused after it received an Update while other
\* threads have inserted blocks
C8_Witness ==
    /\ operating_state = Paused
    /\ lastOp.op = "recv" /\ lastOp.block = Update
    /\ Cardinality(Held) > 1
    /\ finished_block_chan = <<>>

\* C9: once the miner has received Exit, from Paused or from Run, it is in
\* ShutDown and never again attempts a proof of work, publishes a block,
\* inserts into the ledger, receives a signal or changes state, whatever is
\* sent afterwards.
C9_ShutDownTerminal ==
    /\ [](exit_consumed => operating_state = ShutDown)
    /\ [][exit_consumed =>
            /\ operating_state' = operating_state
            /\ lastOp'.op \notin MinerWork \cup {"recv", "try_recv"}
            /\ pc' \in {"loop", "returned"}
            /\ finished_block_chan' = finished_block_chan
            /\ Len(control_chan') >= Len(control_chan)]_vars

\* the miner received Exit after it had published a block, its thread has
\* returned, and a signal was sent afterwards
C9_Witness ==
    /\ exit_consumed
    /\ pc = "returned"
    /\ finished_block_chan # <<>>
    /\ lastOp.op = "send_err"

\* C10: receiving Update, while Paused or while Run(i), leaves the operating
\* state unchanged and does not end the miner thread.
C10_UpdateIsNoOp ==
    [][(lastOp'.op \in {"recv", "try_recv"} /\ lastOp'.block = Update) =>
          /\ operating_state' = operating_state
          /\ pc' \notin {"panicked", "returned"}]_vars

\* C11 as stated: while in Run, an iteration that starts with an Exit pending
\* anywhere in the control channel consumes the pending signals first, so it
\* does not go on to a proof-of-work attempt.
C11_DrainsBeforePow ==
    [][(lastOp'.op = "try_recv" /\ Exit \in Range(control_chan)) =>
          pc' # "mine"]_vars

\* C11 amended: while in Run, each iteration receives at most one signal, the
\* oldest pending one, before the proof-of-work attempt; when that signal is
\* Exit the thread returns and makes no further proof-of-work attempt, and
\* when it is Start(i) the iteration goes on to the attempt with the signals
\* behind it still pending.
C11_OneSignalPerIteration ==
    [][/\ (lastOp'.op = "try_recv" /\ control_chan # <<>>) =>
             /\ control_chan' = Tail(control_chan)
             /\ lastOp'.block = Head(control_chan)
             /\ Head(control_chan) = Exit =>
                    operating_state' = ShutDown /\ pc' = "returned"
             /\ Head(control_chan)[1] = "Start" =>
                    operating_state' = Run(Head(control_chan)[2]) /\ pc' = "mine"
       /\ pc = "returned" =>
             pc' = "returned" /\ lastOp'.op \notin MinerWork]_vars

\* the miner, running, received an Exit that was the oldest pending signal
\* with another signal behind it, after it had published a block
C11_Witness ==
    /\ lastOp.op = "try_recv" /\ lastOp.block = Exit
    /\ pc = "returned"
    /\ control_chan # <<>>
    /\ finished_block_chan # <<>>

\* C12: every block the miner publishes on finished_block_chan has a hash
\* <= its header difficulty and carries the difficulty of the genesis block;
\* a candidate whose hash exceeds the difficulty is neither published nor
\* inserted into the ledger.
C12_PublishedMeetDifficulty ==
    /\ [](\A i \in DOMAIN finished_block_chan :
            /\ DigestLe(BlockHash(finished_block_chan[i]),
                        get_difficulty(finished_block_chan[i]))
            /\ get_difficulty(finished_block_chan[i]) = get_difficulty(genesis_block))
    /\ [](\A h \in Held, nonce \in MinerNonces :
            LET b == candidate_block(h, nonce)
            IN  ~DigestLe(BlockHash(b), get_difficulty(b)) =>
                  /\ b \notin Range(finished_block_chan)
                  /\ BlockHash(b) \notin Held)
    /\ [][(lastOp'.op = "pow"
            /\ ~DigestLe(BlockHash(block'), get_difficulty(block'))) =>
            /\ finished_block_chan' = finished_block_chan
            /\ blockchain' = blockchain
            /\ pc' = "loop"]_vars

\* after publishing a block, the miner has just built a candidate on the new
\* tip whose hash exceeds the difficulty
C12_Witness ==
    /\ lastOp.op = "pow"
    /\ finished_block_chan # <<>>
    /\ get_parent(block) = BlockHash(finished_block_chan[Len(finished_block_chan)])
    /\ ~DigestLe(BlockHash(block), get_difficulty(block))

\* C13: when the miner is the only source of new blocks, the blocks it
\* publishes form a chain: the first published block's parent is genesis and
\* each later one's parent is the hash of the block published before it, so
\* after k published-and-inserted blocks all_blocks_in_longest_chain() is
\* genesis followed by the k published blocks, of length k + 1.
C13_PublishedFormChain ==
    LET k == Len(finished_block_chan)
        inserted == IF pc = "insert" THEN k - 1 ELSE k
        chain == all_blocks_in_longest_chain(blockchain)
    IN  /\ \A i \in 1 .. k :
              get_parent(finished_block_chan[i]) =
                 IF i = 1 THEN genesis_hash
                 ELSE BlockHash(finished_block_chan[i - 1])
        /\ Len(chain) = inserted + 1
        /\ chain[1] = genesis_hash
        /\ \A i \in 1 .. inserted : chain[i + 1] = BlockHash(finished_block_chan[i])

\* the miner has published and inserted two blocks
C13_Witness ==
    /\ Len(finished_block_chan) >= 2
    /\ pc = "loop"
    /\ Len(all_blocks_in_longest_chain(blockchain)) = Len(finished_block_chan) + 1

\* ---------------------------------------------------- network worker claims
\* the sequence l lists, in the order of full, exactly the elements of full
\* at the positions P
ListsPositions(l, full, P) ==
    /\ Len(l) = Cardinality(P)
    /\ \A j \in 1 .. Len(l) :
          \E i \in P : l[j] = full[i] /\ Cardinality({k \in P : k < i}) = j - 1

\* the step is the handling of a message of the given kind
Handling(kind) == net_pc = "handle" /\ msg[1] = kind /\ net_pc' = "done"

\* C14: on NewBlockHashes(hashes) the worker sends GetBlocks to the peer the
\* message came from, listing exactly the hashes of the message that are not
\* in the ledger, in message order; it sends nothing when all are known,
\* never broadcasts, and leaves the ledger unchanged.
C14_NewBlockHashesReply ==
    [][Handling("NewBlockHashes") =>
         LET unknown == {i \in DOMAIN msg[2] : msg[2][i] \notin Held}
         IN  /\ blockchain' = blockchain
             /\ orphan_buffer' = orphan_buffer
             /\ \A i \in DOMAIN sent' : sent'[i][1] # "broadcast"
             /\ IF unknown = {} THEN sent' = <<>>
                ELSE /\ Len(sent') = 1
                     /\ sent'[1][1] = "write"
                     /\ sent'[1][2][1] = "GetBlocks"
                     /\ ListsPositions(sent'[1][2][2], msg[2], unknown)]_vars

\* an announcement of a held hash followed by an unknown one was answered
\* with a request for the unknown one
C14_Witness ==
    /\ net_pc = "done" /\ msg[1] = "NewBlockHashes"
    /\ Len(msg[2]) = 2
    /\ msg[2][1] \in Held \ {genesis_hash}
    /\ msg[2][2] \notin Held
    /\ sent = <<Write(GetBlocks(<<msg[2][2]>>))>>

\* C15: on GetBlocks(hashes) the worker replies to the requester with Blocks
\* holding exactly the blocks of the requested hashes that are in the ledger,
\* in request order; unknown hashes are omitted, no reply is sent when none
\* is known, and the ledger is unchanged.
C15_GetBlocksReply ==
    [][Handling("GetBlocks") =>
         LET known == {i \in DOMAIN msg[2] : msg[2][i] \in Held}
         IN  /\ blockchain' = blockchain
             /\ orphan_buffer' = orphan_buffer
             /\ IF known = {} THEN sent' = <<>>
                ELSE /\ Len(sent') = 1
                     /\ sent'[1][1] = "write"
                     /\ sent'[1][2][1] = "Blocks"
                     /\ ListsPositions(
                           [j \in DOMAIN sent'[1][2][2] |-> BlockHash(sent'[1][2][2][j])],
                           msg[2], known)
                     /\ \A j \in DOMAIN sent'[1][2][2] :
                           sent'[1][2][2][j] = blockchain.blocks[BlockHash(sent'[1][2][2][j])]]_vars

\* a request for an unknown hash followed by a held one was answered with
\* the held block
C15_Witness ==
    /\ net_pc = "done" /\ msg[1] = "GetBlocks"
    /\ Len(msg[2]) = 2
    /\ msg[2][1] \notin Held
    /\ msg[2][2] \in Held \ {genesis_hash}
    /\ sent = <<Write(Blocks(<<blockchain.blocks[msg[2][2]]>>))>>

\* the hash lists of the NewBlockHashes broadcasts among the events
BroadcastLists(events) ==
    {events[i][2][2] : i \in {j \in DOMAIN events :
                                events[j][1] = "broadcast"
                                /\ events[j][2][1] = "NewBlockHashes"}}

\* C16: when the worker receives Blocks holding a block that is not in the
\* ledger, whose parent is the ledger tip and whose hash is <= its own header
\* difficulty (as generate_random_block builds it, with the all-ones
\* difficulty), the worker inserts it and broadcasts NewBlockHashes listing
\* that block's hash, and exactly that hash when it is the only block sent.
C16_TipChildInserted ==
    [][Handling("Blocks") =>
         \A i \in DOMAIN msg[2] :
            LET b == msg[2][i]
            IN  (/\ BlockHash(b) \notin Held
                 /\ get_parent(b) = tip(blockchain)
                 /\ DigestLe(BlockHash(b), get_difficulty(b))) =>
                    /\ BlockHash(b) \in DOMAIN blockchain'.blocks
                    /\ \E l \in BroadcastLists(sent') :
                          \E j \in DOMAIN l : l[j] = BlockHash(b)
                    /\ Len(msg[2]) = 1 =>
                          BroadcastLists(sent') = {<<BlockHash(b)>>}]_vars

\* the held block of hash h is consensus-valid: its hash is <= its header
\* difficulty and its difficulty is that of its parent
ConsensusValid(h) ==
    LET b == blockchain.blocks[h]
    IN  /\ DigestLe(h, get_difficulty(b))
        /\ get_parent(b) \in Held
        /\ get_difficulty(b) = get_difficulty(blockchain.blocks[get_parent(b)])

\* C17: no block received from a peer whose hash exceeds its header
\* difficulty, or whose header difficulty differs from its parent's, is ever
\* in the ledger or listed in a NewBlockHashes broadcast, whether it came
\* through the Blocks handler directly or through orphan resolution.
C17_NoInvalidBlock ==
    /\ \A h \in Held \ {genesis_hash} : ConsensusValid(h)
    /\ \A l \in BroadcastLists(sent) :
          \A j \in DOMAIN l : l[j] \in Held \ {genesis_hash} => ConsensusValid(l[j])

\* the Blocks handler of msg after the first n blocks of the batch
LoopAt(n) ==
    blocks_loop([bc |-> blockchain, ob |-> orphan_buffer, out |-> <<>>, new |-> <<>>],
                SubSeq(msg[2], 1, n))

\* C18: a block received in Blocks that passes proof of work but whose parent
\* is not in the ledger is not inserted: it is appended to the orphan buffer
\* under its parent hash and GetBlocks([parent]) is written to the peer that
\* delivered it; the remaining blocks of the batch are still processed.
C18_OrphanBuffered ==
    [][Handling("Blocks") =>
         \A i \in DOMAIN msg[2] :
            LET b == msg[2][i]
                parent == get_parent(b)
                s == LoopAt(i - 1)
                s1 == LoopAt(i)
            IN  (/\ DigestLe(BlockHash(b), get_difficulty(b))
                 /\ parent \notin DOMAIN s.bc.blocks) =>
                    /\ s1.bc = s.bc
                    /\ DOMAIN s1.ob = DOMAIN s.ob \cup {parent}
                    /\ s1.ob[parent] =
                          (IF parent \in DOMAIN s.ob THEN s.ob[parent] ELSE <<>>) \o <<b>>
                    /\ \A k \in DOMAIN s.ob \ {parent} : s1.ob[k] = s.ob[k]
                    /\ s1.out = Append(s.out, Write(GetBlocks(<<parent>>)))
                    /\ Len(sent') >= Len(s1.out)
                    /\ SubSeq(sent', 1, Len(s1.out)) = s1.out
                    /\ parent \notin DOMAIN blockchain'.blocks =>
                          /\ BlockHash(b) \notin DOMAIN blockchain'.blocks
                          /\ parent \in DOMAIN orphan_buffer'
                          /\ b \in Range(orphan_buffer'[parent])
                    /\ \A k \in DOMAIN msg[2] :
                          (/\ k > i
                           /\ DigestLe(BlockHash(msg[2][k]), get_difficulty(msg[2][k]))
                           /\ get_parent(msg[2][k]) \in Held
                           /\ get_difficulty(msg[2][k]) =
                                 get_difficulty(blockchain.blocks[get_parent(msg[2][k])])) =>
                              BlockHash(msg[2][k]) \in DOMAIN blockchain'.blocks]_vars

\* a batch of an orphan and a child of the tip was handled: the orphan joined
\* an orphan buffered before under the same parent, its parent was requested,
\* and the child of the tip was inserted and announced
C18_Witness ==
    /\ net_pc = "done" /\ msg[1] = "Blocks" /\ Len(msg[2]) = 2
    /\ get_parent(msg[2][1]) \notin Held
    /\ get_parent(msg[2][1]) \in DOMAIN orphan_buffer
    /\ Len(orphan_buffer[get_parent(msg[2][1])]) = 2
    /\ orphan_buffer[get_parent(msg[2][1])][2] = msg[2][1]
    /\ orphan_buffer[get_parent(msg[2][1])][1] # msg[2][1]
    /\ BlockHash(msg[2][2]) = tip(blockchain)
    /\ sent = <<Write(GetBlocks(<<get_parent(msg[2][1])>>)),
                Broadcast(NewBlockHashes(<<BlockHash(msg[2][2])>>)),
                CallOrphans>>

\* the hashes reachable from the hashes known through the buffered blocks:
\* known, the buffered children of known hashes, their buffered children, ..
RECURSIVE Available(_, _)
Available(known, ob) ==
    LET more == UNION {{BlockHash(ob[k][j]) : j \in DOMAIN ob[k]} :
                          k \in DOMAIN ob \cap known}
    IN  IF more \subseteq known THEN known ELSE Available(known \cup more, ob)

\* the hash lists process_orphans broadcast, in order: the broadcasts that
\* follow the call of process_orphans in the handler's effects
OrphanCasts(events) ==
    LET at == CHOOSE i \in DOMAIN events : events[i] = CallOrphans
    IN  [j \in 1 .. (Len(events) - at) |-> events[at + j][2][2]]

\* C19: when process_orphans returns, with no other worker running, no key
\* of the orphan buffer is a hash held in the ledger, and every buffered
\* block whose missing ancestors have become available is in the ledger, a
\* grandchild that was buffered before its parent arrived included; the
\* other buffered blocks stay buffered.
C19_OrphanFixedPoint ==
    [][Handling("Blocks") =>
         LET end == LoopAt(Len(msg[2]))
             avail == Available(DOMAIN end.bc.blocks, end.ob)
         IN  /\ \A k \in DOMAIN orphan_buffer' : k \notin DOMAIN blockchain'.blocks
             /\ DOMAIN blockchain'.blocks = avail
             /\ DOMAIN orphan_buffer' = DOMAIN end.ob \ avail
             /\ \A k \in DOMAIN orphan_buffer' : orphan_buffer'[k] = end.ob[k]]_vars

\* orphan resolution promoted a child and, in a later pass, its grandchild:
\* both were buffered before the parent of the child arrived
C19_Witness ==
    /\ net_pc = "done" /\ msg[1] = "Blocks"
    /\ Len(OrphanCasts(sent)) = 2
    /\ \E c \in Range(OrphanCasts(sent)[1]), g \in Range(OrphanCasts(sent)[2]) :
          /\ {c, g} \subseteq Held
          /\ get_parent(blockchain.blocks[g]) = c
          /\ get_parent(blockchain.blocks[c]) \in {BlockHash(b) : b \in Range(msg[2])}
    /\ orphan_buffer = <<>>

\* the concatenation of the sequences of a sequence
RECURSIVE Flatten(_)
Flatten(seqs) == IF seqs = <<>> THEN <<>> ELSE Head(seqs) \o Flatten(Tail(seqs))

\* the number of times x occurs in seq
Count(seq, x) == Cardinality({i \in DOMAIN seq : seq[i] = x})

\* C20 as stated: one invocation of orphan resolution emits at most one
\* NewBlockHashes broadcast.
C20_OneBroadcast ==
    (net_pc = "done" /\ msg[1] = "Blocks") => Len(OrphanCasts(sent)) <= 1

\* C20 amended: one invocation of orphan resolution emits one NewBlockHashes
\* broadcast for each pass of its loop that inserted blocks, so possibly
\* several; none is empty, none is sent when nothing is promoted, a promoted
\* parent is listed before its promoted child, and together the broadcasts
\* list exactly the hashes of the orphans inserted during the invocation.
C20_BroadcastPerPass ==
    [][Handling("Blocks") =>
         LET end == LoopAt(Len(msg[2]))
             avail == Available(DOMAIN end.bc.blocks, end.ob)
             promoted == Flatten([i \in 1 .. Cardinality(DOMAIN end.ob \cap avail) |->
                            LET keys == DOMAIN end.ob \cap avail
                                k == CHOOSE f \in [1 .. Cardinality(keys) -> keys] :
                                        \A a, c \in DOMAIN f : a # c => f[a] # f[c]
                            IN  [j \in DOMAIN end.ob[k[i]] |-> BlockHash(end.ob[k[i]][j])]])
             casts == OrphanCasts(sent')
             flat == Flatten(casts)
         IN  /\ \A i \in DOMAIN casts : casts[i] # <<>>
             /\ (promoted = <<>>) = (casts = <<>>)
             /\ Len(flat) = Len(promoted)
             /\ \A h \in Range(flat) \cup Range(promoted) :
                   Count(flat, h) = Count(promoted, h)
             /\ \A i \in DOMAIN flat :
                   /\ flat[i] \in DOMAIN blockchain'.blocks
                   /\ get_parent(blockchain'.blocks[flat[i]]) \notin DOMAIN end.bc.blocks =>
                         \E j \in 1 .. (i - 1) :
                            flat[j] = get_parent(blockchain'.blocks[flat[i]])]_vars

\* orphan resolution sent two broadcasts in one invocation: the child in the
\* first, its grandchild in the second
C20_Witness ==
    /\ net_pc = "done" /\ msg[1] = "Blocks"
    /\ Len(OrphanCasts(sent)) = 2
    /\ Len(OrphanCasts(sent)[1]) = 1 /\ Len(OrphanCasts(sent)[2]) = 1
    /\ get_parent(blockchain.blocks[OrphanCasts(sent)[2][1]]) = OrphanCasts(sent)[1][1]

\* ---------------------------------------------------------------- C21, C22
\* worker w waits for lock l: it stands at a statement that acquires l
WaitsFor(w, l) ==
    \/ /\ l = "orphans"
       /\ \/ wk[w].pc = "lock_orphans"
          \/ /\ wk[w].pc = "loop"
             /\ wk[w].rest # <<>>
             /\ is_orphan(blockchain, Head(wk[w].rest))
    \/ /\ l = "ledger"
       /\ \/ wk[w].pc = "lock_ledger"
          \/ wk[w].pc = "handle"

\* the positions of a worker at a peer.write or server.broadcast call
SendPcs == {"write", "write_parent", "broadcast"}

\* C21: with two network workers no deadlock is reachable on the ledger lock
\* and the orphan-buffer lock: never does each of two workers hold one of the
\* two locks while waiting for the lock the other holds.
C21_NoLockCycle ==
    ~ \E a, b \in Workers :
         /\ a # b
         /\ holder["ledger"] = a /\ WaitsFor(a, "orphans")
         /\ holder["orphans"] = b /\ WaitsFor(b, "ledger")

\* C22: no thread holds the ledger lock while it performs a peer write or a
\* broadcast.
C22_NoSendUnderLedger ==
    \A w \in Workers : wk[w].pc \in SendPcs => holder["ledger"] # w

\* ---------------------------------------------------------------- C23, C25
\* C23: no thread holds the ledger lock and the mempool lock at the same
\* time; the miner worker takes the mempool lock only after it inserted the
\* block and released the ledger lock.
C23_LedgerThenMempool ==
    /\ \A t \in Workers \cup {"miner_worker", "generator"} :
          ~(holder["ledger"] = t /\ holder["mempool"] = t)
    /\ holder["mempool"] = "miner_worker" =>
          /\ mw.pc = "remove"
          /\ BlockHash(mw.block) \in DOMAIN blockchain.blocks

C23_Witness ==
    /\ holder["mempool"] = "miner_worker"
    /\ holder["ledger"] = Free
    /\ mw.block # genesis_block

\* C25: for every block taken from the finished-block channel the miner
\* worker broadcasts NewBlockHashes with exactly the hash of the block once the
\* block is in the ledger, and removes the transactions of the block from the
\* mempool after that broadcast: when it has finished the block, the block is
\* in the ledger and none of its transactions is pooled.
C25_CommitOrder ==
    [][/\ (mw.pc = "broadcast" /\ mw'.pc # "broadcast") =>
            /\ BlockHash(mw.block) \in DOMAIN blockchain.blocks
            /\ mw'.cast = <<BlockHash(mw.block)>>
       /\ (mw.pc = "remove" /\ mw'.pc # "remove") =>
            /\ mw.cast = <<BlockHash(mw.block)>>
            /\ BlockHash(mw.block) \in DOMAIN blockchain'.blocks
            /\ \A i \in DOMAIN mw.block.content :
                   tx_hash(mw.block.content[i]) \notin DOMAIN mempool'.pool
       /\ (mw.pc = "recv" /\ mw'.pc # "recv") =>
            /\ mw'.block = Head(finished_block_chan)
            /\ mw'.cast = <<>>]_vars

C25_Witness ==
    /\ mw.pc = "recv"
    /\ Len(mw.block.content) = 2
    /\ Cardinality(mw.removed) = 2
    /\ mw.removed = {tx_hash(mw.block.content[i]) : i \in DOMAIN mw.block.content}

\* ---------------------------------------------------------------------- C24
\* C24: when B holds a chain two blocks longer than A's and A receives
\* NewBlockHashes for the tip of B only, the GetBlocks and Blocks exchanges
\* that follow end with the longest chain of A equal to the longest chain of B.
C24_Sync ==
    (all_blocks_in_longest_chain(blockchain) # all_blocks_in_longest_chain(peer_b))
        ~> (all_blocks_in_longest_chain(blockchain) = all_blocks_in_longest_chain(peer_b))

C24_Witness ==
    /\ all_blocks_in_longest_chain(blockchain) = all_blocks_in_longest_chain(peer_b)
    /\ Len(all_blocks_in_longest_chain(blockchain)) >= 3
    /\ to_a = <<>> /\ to_b = <<>>

\* ------------------------------------------------------ C26, C27, C28
\* the signature of a signed transaction verifies against its own public key
Verifies(tx) == verify(tx.transaction, tx.public_key, tx.signature)

\* C26: whenever add_transaction returns an error (pool full, duplicate hash,
\* invalid signature) the pool is unchanged; in every reachable state the pool
\* holds at most max_size transactions and every pooled transaction has a
\* signature that verifies against its own public key.
C26_Admission ==
    /\ Cardinality(DOMAIN mempool.pool) <= mempool.max_size
    /\ \A h \in DOMAIN mempool.pool : Verifies(mempool.pool[h])
    /\ call.op = "add_transaction" =>
          /\ call.result \in {"Ok", "Mempool is full", "Duplicate transaction",
                               "Invalid Signature"}
          /\ call.result # "Ok" => mempool = call.before
          /\ ~Verifies(call.arg) => call.result # "Ok"

C26_Witness ==
    /\ call.op = "add_transaction"
    /\ call.result = "Invalid Signature"
    /\ mempool.pool # <<>>
    /\ mempool = call.before

\* two calls in a row adding the same validly signed transaction, the first
\* of them on an empty pool
AddedTwice ==
    /\ call.op = "add_transaction"
    /\ call.before.pool = <<>>
    /\ Verifies(call.arg)
    /\ call'.op = "add_transaction"
    /\ call'.arg = call.arg

\* C27 as stated: adding the same validly signed transaction twice to a
\* mempool of any capacity >= 1 yields success for the first add and
\* "Duplicate transaction" for the second.
C27_SecondIsDuplicate ==
    [][AddedTwice =>
          /\ call.result = "Ok"
          /\ call'.result = "Duplicate transaction"]_vars

\* C27: adding the same validly signed transaction twice to an empty mempool
\* yields success for the first add and a rejection that leaves the pool
\* unchanged for the second: "Duplicate transaction" when the capacity is at
\* least 2, "Mempool is full" when the capacity is 1.
C27_SecondIsRejected ==
    [][AddedTwice =>
          /\ call.result = "Ok"
          /\ call'.result = IF mempool.max_size >= 2
                            THEN "Duplicate transaction"
                            ELSE "Mempool is full"
          /\ mempool' = mempool]_vars

C27_Witness ==
    /\ call.op = "add_transaction"
    /\ call.result = "Duplicate transaction"
    /\ call.before = mempool
    /\ DOMAIN mempool.pool = {tx_hash(call.arg)}

\* C28: after update_with_state(state) the pool is the set of previously
\* pooled transactions for which state.is_valid_transaction is true.
C28_EvictsExactlyInvalid ==
    call.op = "update_with_state" =>
        /\ mempool.max_size = call.before.max_size
        /\ DOMAIN mempool.pool =
              {h \in DOMAIN call.before.pool :
                  /\ sender_address(call.before.pool[h]) \in DOMAIN call.arg.accounts
                  /\ call.arg.accounts[sender_address(call.before.pool[h])][1] + 1
                        = call.before.pool[h].transaction.nonce
                  /\ call.arg.accounts[sender_address(call.before.pool[h])][2]
                        >= call.before.pool[h].transaction.value}
        /\ \A h \in DOMAIN mempool.pool : mempool.pool[h] = call.before.pool[h]

C28_Witness ==
    /\ call.op = "update_with_state"
    /\ mempool.pool # <<>>
    /\ DOMAIN mempool.pool # DOMAIN call.before.pool

\* ----------------------------------------------------------- C29, C30
\* the account of address a in accounts, as (nonce, balance); an absent
\* account counts as (0, 0)
AccountOf(accounts, a) == IF a \in DOMAIN accounts THEN accounts[a] ELSE <<0, 0>>

\* C29: is_valid_transaction(tx) is true exactly when the sender address
\* derived from the public key of tx has an account, the stored nonce of the
\* account plus 1 equals the nonce of tx and its balance is at least the value
\* of tx.
C29_ValidIff ==
    call.op = "is_valid_transaction" =>
        LET sender == from_public_key_bytes(call.arg.public_key)
        IN  /\ call.result \in BOOLEAN
            /\ sender \notin DOMAIN call.before.accounts => call.result = FALSE
            /\ sender \in DOMAIN call.before.accounts =>
                  (call.result = TRUE <=>
                     /\ call.before.accounts[sender][1] + 1 = call.arg.transaction.nonce
                     /\ call.before.accounts[sender][2] >= call.arg.transaction.value)

C29_Witness ==
    /\ call.op = "is_valid_transaction"
    /\ call.result = TRUE
    /\ call.arg.public_key = public_key("k2")
    /\ call.arg.transaction.nonce = 2

\* C30 as stated: for every accepted transaction, a self-transfer included,
\* apply_transaction increments the nonce of the sender by 1, leaves
\* sender_balance_before = sender_balance_after + value and
\* receiver_balance_after = receiver_balance_before + value (an absent
\* receiver is created with balance value); other accounts are unchanged.
C30_Transfer ==
    call.op = "apply_transaction" =>
        LET sender == sender_address(call.arg)
            receiver == call.arg.transaction.receiver
            value == call.arg.transaction.value
        IN  /\ state.accounts[sender][1] = call.before.accounts[sender][1] + 1
            /\ call.before.accounts[sender][2] = state.accounts[sender][2] + value
            /\ state.accounts[receiver][2]
                  = AccountOf(call.before.accounts, receiver)[2] + value
            /\ receiver \notin DOMAIN call.before.accounts =>
                  state.accounts[receiver] = <<0, value>>
            /\ \A a \in DOMAIN state.accounts \ {sender, receiver} :
                  /\ a \in DOMAIN call.before.accounts
                  /\ state.accounts[a] = call.before.accounts[a]

\* C30: for every accepted transaction whose receiver is not the sender,
\* apply_transaction does as stated; for an accepted self-transfer it
\* increments the nonce of the sender by 1 and leaves its balance as it was;
\* other accounts are unchanged.
C30_TransferOrSelf ==
    call.op = "apply_transaction" =>
        LET sender == sender_address(call.arg)
            receiver == call.arg.transaction.receiver
            value == call.arg.transaction.value
        IN  /\ state.accounts[sender][1] = call.before.accounts[sender][1] + 1
            /\ receiver # sender =>
                  /\ call.before.accounts[sender][2] = state.accounts[sender][2] + value
                  /\ state.accounts[receiver][2]
                        = AccountOf(call.before.accounts, receiver)[2] + value
                  /\ state.accounts[receiver][1]
                        = AccountOf(call.before.accounts, receiver)[1]
            /\ receiver = sender =>
                  state.accounts[sender][2] = call.before.accounts[sender][2]
            /\ DOMAIN state.accounts = DOMAIN call.before.accounts \cup {receiver}
            /\ \A a \in DOMAIN state.accounts \ {sender, receiver} :
                  state.accounts[a] = call.before.accounts[a]

C30_Witness ==
    /\ call.op = "apply_transaction"
    /\ call.arg.transaction.receiver = sender_address(call.arg)
    /\ call.arg.transaction.value > 0
    /\ state.accounts[sender_address(call.arg)][1] = 2

\* ---------------------------------------------------------------------- C31
\* C31: for every non-empty list of items and every index below its length,
\* verify(root, hash(item), proof(index), index, length) is true for the tree
\* built from the list, and false when one proof entry, the index or the
\* datum is changed.
C31_MerkleRoundTrip ==
    call.op = "verify" =>
        (call.result = TRUE <=> call.arg.changed = "nothing")

\* the first half of C31 alone: the unchanged proof verifies
C31_ProofVerifies ==
    (call.op = "verify" /\ call.arg.changed = "nothing") => call.result = TRUE

\* the second half of C31 alone: a changed proof, index or datum is rejected
C31_ChangeRejected ==
    (call.op = "verify" /\ call.arg.changed # "nothing") => call.result = FALSE

\* ---------------------------------------------------------------------- C32
\* C32: a message of a kind other than Ping, Pong, NewBlockHashes, GetBlocks
\* and Blocks is fatal for the network worker that dequeues it: the worker
\* stops processing messages (it takes no further step once it has met the
\* message), nothing is written to the ledger or the orphan buffer, and no
\* reply or broadcast is sent.
C32_UnsupportedIsFatal ==
    [][/\ (net_pc = "handle" /\ msg[1] \notin Supported) =>
            /\ net_pc' = "panicked"
            /\ blockchain' = blockchain
            /\ orphan_buffer' = orphan_buffer
            /\ sent' = <<>>
       /\ net_pc = "panicked" => UNCHANGED <<blockchain, netVars>>]_vars

\* a worker has met a NewTransactionHashes message and is dead
C32_Witness ==
    /\ net_pc = "panicked"
    /\ msg[1] = "NewTransactionHashes"
    /\ blockchain # new

\* ---------------------------------------------------------------------- C33
\* the step is the miner's insert of the block it has mined
MinerInserts == pc = "insert" /\ pc' = "loop"

\* C33: whenever the miner inserts a block it has mined, the block's parent
\* is still the ledger tip at the moment of insertion and the insert makes
\* the mined block the new tip, also when other threads insert blocks between
\* the miner's tip read and its insert.
C33_ParentStillTip ==
    [][MinerInserts =>
          /\ get_parent(block) = tip(blockchain)
          /\ tip(blockchain') = BlockHash(block)]_vars

\* C33 as the code has it: the parent the miner read is still held and the
\* block is recorded one above it; the block becomes the tip when its parent
\* is still the tip, and otherwise the tip changes only to the block, and
\* only when the block is higher than the tip
C33_InsertAfterRace ==
    [][MinerInserts =>
          /\ get_parent(block) = parent_hash
          /\ parent_hash \in DOMAIN blockchain.blocks
          /\ BlockHash(block) \in DOMAIN blockchain'.blocks
          /\ blockchain'.heights[BlockHash(block)] = blockchain.heights[parent_hash] + 1
          /\ get_parent(block) = tip(blockchain) => tip(blockchain') = BlockHash(block)
          /\ tip(blockchain') # tip(blockchain) =>
                /\ tip(blockchain') = BlockHash(block)
                /\ blockchain'.heights[BlockHash(block)] > blockchain.heights[tip(blockchain)]]_vars

\* the miner has inserted its block after another thread moved the tip away
\* from the parent it mined on, and the tip stayed where it was
C33_Witness ==
    /\ lastOp.op = "miner_insert"
    /\ BlockHash(block) \in DOMAIN blockchain.blocks
    /\ tip(blockchain) # BlockHash(block)
    /\ tip(blockchain) # parent_hash

\* ---------------------------------------------------------------------- C34
\* the hash lists the Blocks handler broadcast for its batch: the broadcasts
\* that precede the call of process_orphans in the handler's effects
BatchCasts(events) ==
    LET at == CHOOSE i \in DOMAIN events : events[i] = CallOrphans
    IN  {events[i][2][2] : i \in {j \in 1 .. (at - 1) : events[j][1] = "broadcast"}}

\* C34: within one Blocks batch, a block whose parent is present, whose
\* difficulty matches the parent's and whose hash is already in the ledger
\* (known before the batch, or put there by an earlier entry of the batch)
\* is not re-inserted and is not listed in the NewBlockHashes broadcast of
\* the batch; no broadcast is sent when the batch inserts nothing.
C34_KnownNotRelisted ==
    [][Handling("Blocks") =>
         /\ Cardinality(BatchCasts(sent')) <= 1
         /\ \A l \in BatchCasts(sent') :
               \A i \in DOMAIN l : l[i] \notin Held /\ Count(l, l[i]) = 1
         /\ \A h \in Held :
               /\ blockchain'.blocks[h] = blockchain.blocks[h]
               /\ blockchain'.heights[h] = blockchain.heights[h]
         /\ DOMAIN blockchain'.blocks = Held => BroadcastLists(sent') = {}]_vars

\* a batch held the same new block twice, and a held one: one hash was listed
C34_Witness ==
    /\ net_pc = "done" /\ msg[1] = "Blocks"
    /\ Len(msg[2]) = 2
    /\ msg[2][1] = msg[2][2]
    /\ BatchCasts(sent) = {<<BlockHash(msg[2][1])>>}

\* ---------------------------------------------------------------------- C35
\* the hash lists of the NewBlockHashes broadcasts of the node: the one of
\* the miner worker for the block it handles, and the ones of the network
\* worker for the message it handles
Announced ==
    (IF mw.cast = <<>> THEN {} ELSE {mw.cast}) \cup BroadcastLists(sent)

\* C35: every hash a node lists in a NewBlockHashes broadcast (from the
\* miner worker, from Blocks handling or from orphan resolution) is held in
\* the ledger of the node from the moment of the broadcast on, so that a
\* GetBlocks for the list is answered with the blocks of all listed hashes.
C35_AnnouncedAreHeld ==
    \A l \in Announced :
        /\ \A i \in DOMAIN l : l[i] \in Held
        /\ on_get_blocks(blockchain, l) =
              <<Write(Blocks([i \in DOMAIN l |-> blockchain.blocks[l[i]]]))>>

\* the miner worker has announced a mined block, and the network worker a
\* batch block and, from orphan resolution, a block that was buffered
C35_Witness ==
    /\ mw.cast # <<>>
    /\ net_pc = "done"
    /\ BatchCasts(sent) # {}
    /\ OrphanCasts(sent) # <<>>

\* ---------------------------------------------------------------------- C36
\* the hashes the handler's NewBlockHashes broadcasts list, in order, over
\* all the broadcasts of the handler
ListedHashes(events) ==
    LET IsCast(e) == e[1] = "broadcast"
        casts == SelectSeq(events, IsCast)
    IN  Flatten([i \in DOMAIN casts |-> casts[i][2][2]])

\* C36: a node announces each block at most once: no block hash appears
\* more than once across all the NewBlockHashes broadcasts the node emits.
\* Every block the ledger holds beyond genesis was announced by the handler
\* that inserted it, so a handler must list no hash the ledger held before
\* it ran, and no hash twice.
C36_AnnouncedOnce ==
    [][Handling("Blocks") =>
         \A i \in DOMAIN ListedHashes(sent') :
             /\ ListedHashes(sent')[i] \notin Held
             /\ Count(ListedHashes(sent'), ListedHashes(sent')[i]) = 1]_vars

\* ---------------------------------------------------------------------- C37
\* C37: Blockchain::insert is idempotent: inserting a block that is already
\* held in the ledger leaves the block map, the height map and the tip
\* unchanged.
C37_InsertIdempotent ==
    [][(lastOp'.op = "insert" /\ lastOp'.block = "held") =>
          /\ blockchain'.blocks = blockchain.blocks
          /\ blockchain'.heights = blockchain.heights
          /\ blockchain'.tip = blockchain.tip]_vars

\* a held block was inserted again while the ledger held a fork: a block
\* other than the tip at the height of the tip
C37_Witness ==
    /\ lastOp.op = "insert" /\ lastOp.block = "held"
    /\ \E h \in Held \ {tip(blockchain)} : HeightOf(h) = TipHeight

\* ---------------------------------------------------------------------- C38
\* C38: replay protection: after apply_transaction(tx) on a state where
\* is_valid_transaction(tx) held, is_valid_transaction(tx) is false on the
\* resulting state and stays false after any further valid transactions are
\* applied, so no signed transaction can be validly applied twice.
C38_NoReplay ==
    \A tx \in applied : ~is_valid_transaction(state, tx)

\* a transaction was applied, and its sender has since received a transfer
\* of a further transaction, the last one applied
C38_Witness ==
    /\ call.op = "apply_transaction"
    /\ \E t1 \in applied :
          /\ sender_address(t1) # sender_address(call.arg)
          /\ call.arg.transaction.receiver = sender_address(t1)
          /\ call.arg.transaction.value >= t1.transaction.value

\* ---------------------------------------------------------------------- C39
\* the sum of the balances of the accounts
RECURSIVE TotalBalance(_)
TotalBalance(accounts) ==
    IF DOMAIN accounts = {} THEN 0
    ELSE LET a == CHOOSE a \in DOMAIN accounts : TRUE
         IN  accounts[a][2] + TotalBalance([b \in DOMAIN accounts \ {a} |-> accounts[b]])

\* C39: supply conservation: over any sequence of apply_transaction calls
\* in which each transaction is accepted by is_valid_transaction on the
\* state it is applied to, the sum of all account balances stays equal to
\* the initial supply created by State::new, and no balance underflows.
C39_SupplyConserved ==
    /\ TotalBalance(state.accounts) = IcoBalance
    /\ \A a \in DOMAIN state.accounts : state.accounts[a][2] >= 0

\* the supply is spread over three accounts, one of them emptied again
C39_Witness ==
    /\ Cardinality(DOMAIN state.accounts) = 3
    /\ \E a \in DOMAIN state.accounts : state.accounts[a] = <<1, 0>>
    /\ Cardinality(applied) >= 2

====
